---- MODULE Spec2Model ----
(***************************************************************************)
(* OAuth authorization / callback state machine of the integrations        *)
(* backend: the two strategies (Standard, PKCE) of                         *)
(* integrations/base/oauth.py, the three provider adapters of              *)
(* integrations/adapters/*.py and the Redis-backed key-value store of      *)
(* core/redis_store.py.                                                    *)
(*                                                                         *)
(* Every request is a coroutine.  It runs without interruption up to its   *)
(* next await of a store command or of the provider's HTTP answer, so one  *)
(* step of the model is one such segment together with the single store    *)
(* command (or HTTP answer) that ends it.  A step is an operator from the  *)
(* configuration of a request (its label, its local variables, the store)  *)
(* to the next one; the actions apply the steps to the shared store, and   *)
(* running the steps of one request to its end is the request served alone.*)
(***************************************************************************)
EXTENDS Naturals, Sequences, FiniteSets, TLC

VARIABLES
    kv,      \* the store: a function from the keys present to their values
    ttl,     \* the keys that carry a time-to-live
    pc,      \* pc[i]: where request slot i stands
    req,     \* req[i]: the arguments and local variables of the request in slot i
    issued,  \* the number of authorize calls that have drawn their token so far
    serial,  \* TRUE when requests are served one at a time, FALSE when they overlap
    registry \* _registry: a function from the lower-cased names to the adapters

vars == <<kv, ttl, pc, req, issued, serial, registry>>

-----------------------------------------------------------------------------
(* Bounds of the model *)

NProcs == 2
MaxAuthorize == 2
MaxIdLen == 2
MaxPages == 2

Procs == 1 .. NProcs

(* Inputs *)

Providers == {"airtable", "hubspot", "notion"}
Users == {"u", "x:u"}
Orgs == {"o", "o:x"}
(* The accounts that log in; two of them differ only in where the ':' falls *)
Accounts == {<<"u", "o">>, <<"x:u", "o">>, <<"u", "o:x">>}
Codes == {"c1"}
AccessTokens == {"at1", "at2"}
Statuses == {200, 201, 400, 500}

(* The statuses of success, 200 to 299, and the others *)
Is2xx(status_code) == status_code \in 200 .. 299

Non2xx == {status_code \in Statuses : ~Is2xx(status_code)}

-----------------------------------------------------------------------------
(* Configuration: config.py *)

state_expiry_seconds == 600
credentials_expiry_seconds == 600

-----------------------------------------------------------------------------
(* The adapters registered at startup and the strategy each one binds *)

UsesPKCE(p) == p = "airtable"

(* Store keys, composed as the f-strings of the source compose them *)

StateKey(p, org_id, user_id) == p \o "_state:" \o org_id \o ":" \o user_id

VerifierKey(p, org_id, user_id) == p \o "_verifier:" \o org_id \o ":" \o user_id

CredentialsKey(p, org_id, user_id) == p \o "_credentials:" \o org_id \o ":" \o user_id

-----------------------------------------------------------------------------
(* secrets.token_urlsafe(32): the n-th authorize call draws a state token  *)
(* and (PKCE) a verifier that no other draw returns.                       *)

StateToken(n) == "s" \o ToString(n)

CodeVerifier(n) == "v" \o ToString(n)

(* A token no authorize call of this server ever issues *)
ForgedToken == "s0"

(* OAuthState and its JSON text: the text is the sequence of its members *)

OAuthState(state, user_id, org_id) == [state |-> state, user_id |-> user_id, org_id |-> org_id]

model_dump_json(d) == << <<"state", d.state>>, <<"user_id", d.user_id>>, <<"org_id", d.org_id>> >>

JsonHas(text, name) == \E k \in 1 .. Len(text) : text[k][1] = name

JsonGet(text, name) == text[CHOOSE k \in 1 .. Len(text) : text[k][1] = name][2]

ValidStateJson(text) == JsonHas(text, "state") /\ JsonHas(text, "user_id") /\ JsonHas(text, "org_id")

model_validate_json(text) == OAuthState(JsonGet(text, "state"), JsonGet(text, "user_id"), JsonGet(text, "org_id"))

(* base64: an encoded string either is in the alphabet and carries a text, *)
(* or is not and decoding it raises.                                       *)

urlsafe_b64encode(text) == [b64 |-> TRUE, text |-> text]

CanB64Decode(s) == s.b64

urlsafe_b64decode(s) == s.text

EmptyString == [b64 |-> TRUE, text |-> << >>]

NotBase64 == [b64 |-> FALSE, text |-> << >>]

TruncatedJson == urlsafe_b64encode(<< <<"state", ForgedToken>> >>)

EncodeState(d) == urlsafe_b64encode(model_dump_json(d))

(* PKCE challenge: base64url without padding of the SHA-256 digest *)

Sha256(v) == <<"sha256", v>>

CodeChallenge(v) == <<"b64nopad", Sha256(v)>>

-----------------------------------------------------------------------------
(* The query parameters of a callback: a mapping, some names absent *)

Mapping(names, p) == [k \in names |-> p[k]]

Falsy(params, name) == name \notin DOMAIN params \/ params[name] = ""

(* The tokens a callback may present: the forged one and every one the  *)
(* server can issue, whether it has issued it yet or not.               *)
TokensKnown == {ForgedToken} \cup {StateToken(n) : n \in 1 .. MaxAuthorize}

ParamValues(c, s) ==
    [error |-> "access_denied", error_description |-> "denied by user", code |-> c, state |-> s]

(* Callbacks the provider reports as refused, whatever else they carry *)
DeniedParams ==
    { Mapping(names \cup {"error"}, ParamValues("c1", s)) :
        names \in SUBSET {"error_description", "code", "state"},
        s \in {NotBase64, EncodeState(OAuthState(StateToken(1), "u", "o"))} }

(* Callbacks that lack the code or a state that decodes *)
MalformedParams ==
    { Mapping(names, ParamValues(c, s)) :
        names \in SUBSET {"code", "state"}, c \in {"", "c1"},
        s \in {EmptyString, NotBase64, TruncatedJson} }

(* Callbacks with a code and a state that decodes, issued or forged *)
DecodableParams ==
    { Mapping({"code", "state"}, ParamValues(c, EncodeState(OAuthState(t, u, o)))) :
        c \in Codes, t \in TokensKnown, u \in Users, o \in Orgs }

ParamSets == DeniedParams \cup MalformedParams \cup DecodableParams

-----------------------------------------------------------------------------
(* Outcomes.  A failure is the HTTPException the source raises. *)

HTTPException(status_code, detail) == [ok |-> FALSE, status_code |-> status_code, detail |-> detail]

Returned(value) == [ok |-> TRUE, value |-> value]

NoResult == HTTPException(0, "pending")

AuthorizationDenied(params) ==
    HTTPException(400, IF "error_description" \in DOMAIN params
                       THEN params["error_description"] ELSE "OAuth error")

MissingAuthorizationCode == HTTPException(400, "Authorization code not provided")

MissingState == HTTPException(400, "State parameter not provided")

InvalidState == HTTPException(400, "Invalid state parameter")

StateExpired == HTTPException(400, "State not found or expired")

StateMismatch == HTTPException(400, "State mismatch")

VerifierExpired == HTTPException(400, "Code verifier not found or expired")

TokenExchangeFailed(p) ==
    IF p = "hubspot"
    THEN HTTPException(500, "Failed to exchange authorization code for token")
    ELSE HTTPException(400, "Failed to exchange code for token.")

CredentialsNotFound == HTTPException(400, "No credentials found.")

oauth_close_window == Returned("window.close()")

(* An exception that no handler of the application catches: the framework *)
(* answers it with its own 500 response.                                   *)
InternalServerError == HTTPException(500, "Internal Server Error")

-----------------------------------------------------------------------------
(* The store: core/redis_store.py over a Redis server.  A store S is the   *)
(* values S.kv of the keys present and the set S.ttl of the keys that      *)
(* carry a time-to-live.  RedisStore.set is two commands, SET (which also  *)
(* clears any time-to-live of the key) and, when expire is non-zero,       *)
(* EXPIRE.                                                                 *)

Put(f, k, v) == [x \in DOMAIN f \cup {k} |-> IF x = k THEN v ELSE f[x]]

Drop(f, k) == [x \in DOMAIN f \ {k} |-> f[x]]

EmptyStore == [kv |-> << >>, ttl |-> {}]

Present(S, key) == key \in DOMAIN S.kv

redis_get(S, key) == S.kv[key]

redis_set(S, key, value) == [kv |-> Put(S.kv, key, value), ttl |-> S.ttl \ {key}]

(* Mutant: EXPIRE is never sent *)
redis_expire_never(S, key, expire) == S

redis_expire(S, key, expire) ==
    [kv |-> S.kv, ttl |-> IF expire # 0 /\ Present(S, key) THEN S.ttl \cup {key} ELSE S.ttl]

redis_delete(S, key) == [kv |-> Drop(S.kv, key), ttl |-> S.ttl \ {key}]

-----------------------------------------------------------------------------
(* The state parameter character by character.  A str is the sequence of   *)
(* its code points, a bytes the sequence of its byte values.  authorize    *)
(* computes base64.urlsafe_b64encode(model_dump_json().encode("utf-8"))    *)
(* .decode("utf-8"), callback computes OAuthState.model_validate_json(     *)
(* base64.urlsafe_b64decode(encoded_state).decode("utf-8")).               *)

Failed == [ok |-> FALSE]

(* The sequences of ss one after the other *)
RECURSIVE Concat(_)
Concat(ss) ==
    IF Len(ss) = 0 THEN << >>
    ELSE IF Len(ss) = 1 THEN ss[1]
    ELSE Concat(SubSeq(ss, 1, Len(ss) \div 2)) \o Concat(SubSeq(ss, Len(ss) \div 2 + 1, Len(ss)))

(* str.encode("utf-8"), for code points below 0x800 *)
utf8_encode(s) ==
    Concat([k \in 1 .. Len(s) |->
               IF s[k] < 128 THEN <<s[k]>>
               ELSE <<192 + (s[k] \div 64), 128 + (s[k] % 64)>>])

(* bytes.decode("utf-8"): one- and two-byte sequences; anything else raises. *)
(* A byte is a character of its own, the lead of a two-byte sequence that    *)
(* has its continuation, or the continuation of the lead before it.          *)
utf8_decode(b) ==
    LET Lead(k) == b[k] \in 194 .. 223
        Continuation(k) == b[k] \in 128 .. 191
        WellFormed ==
            \A k \in 1 .. Len(b) :
                \/ b[k] < 128
                \/ Lead(k) /\ k < Len(b) /\ Continuation(k + 1)
                \/ Continuation(k) /\ k > 1 /\ Lead(k - 1)
        first == SelectSeq([k \in 1 .. Len(b) |-> k], LAMBDA k : ~Continuation(k))
    IN IF ~WellFormed THEN Failed
       ELSE Returned([j \in 1 .. Len(first) |->
                         IF b[first[j]] < 128 THEN b[first[j]]
                         ELSE (b[first[j]] - 192) * 64 + (b[first[j] + 1] - 128)])

(* str.encode("ascii"), which b64decode applies to a str argument *)
ascii_encode(s) == IF \A k \in 1 .. Len(s) : s[k] < 128 THEN Returned(s) ELSE Failed

(* The base64 alphabet: A-Z a-z 0-9, then '-' and '_' in the URL-safe one *)
b64_char(n) ==
    IF n < 26 THEN 65 + n
    ELSE IF n < 52 THEN 97 + (n - 26)
    ELSE IF n < 62 THEN 48 + (n - 52)
    ELSE IF n = 62 THEN 45
    ELSE 95

(* urlsafe_b64decode maps '-' and '_' to '+' and '/' and then decodes the *)
(* standard alphabet, so it takes both pairs; 64 is no character of it    *)
b64_index(ch) ==
    IF ch \in 65 .. 90 THEN ch - 65
    ELSE IF ch \in 97 .. 122 THEN ch - 97 + 26
    ELSE IF ch \in 48 .. 57 THEN ch - 48 + 52
    ELSE IF ch \in {43, 45} THEN 62
    ELSE IF ch \in {47, 95} THEN 63
    ELSE 64

b64_pad == 61

(* base64.urlsafe_b64encode: each group of three bytes gives four        *)
(* characters, the last group padded with '='                            *)
b64encode(b) ==
    LET Byte(k) == IF k <= Len(b) THEN b[k] ELSE 0
        Char(j) ==
            LET g == (j - 1) \div 4
                r == (j - 1) % 4
                b1 == Byte(3 * g + 1)
                b2 == Byte(3 * g + 2)
                b3 == Byte(3 * g + 3)
            IN CASE r = 0 -> b64_char(b1 \div 4)
                 [] r = 1 -> b64_char((b1 % 4) * 16 + (b2 \div 16))
                 [] r = 2 -> IF 3 * g + 2 > Len(b) THEN b64_pad
                             ELSE b64_char((b2 % 16) * 4 + (b3 \div 64))
                 [] OTHER -> IF 3 * g + 3 > Len(b) THEN b64_pad ELSE b64_char(b3 % 64)
    IN [j \in 1 .. 4 * ((Len(b) + 2) \div 3) |-> Char(j)]

(* base64.urlsafe_b64decode (binascii.a2b_base64, not strict).  The scan  *)
(* skips the characters outside the alphabet; a '=' met when the current  *)
(* group holds two or three characters counts as padding, and the scan    *)
(* ends at the '=' that completes the group; a group left incomplete at   *)
(* the end of the input raises.  The bits read give the bytes, the bits   *)
(* left over in a padded group are dropped.                               *)
b64decode(s) ==
    LET IsData(k) == b64_index(s[k]) # 64
        \* the characters the current group holds when position k is read
        Quad(k) == Cardinality({j \in 1 .. k - 1 : IsData(j)}) % 4
        \* the padding counted up to and including position k
        Pads(k) == Cardinality({j \in 1 .. k : s[j] = b64_pad
                                               /\ \A m \in j .. k : ~IsData(m)})
        Ends(k) == s[k] = b64_pad /\ Quad(k) >= 2 /\ Quad(k) + Pads(k) >= 4
        padded == \E k \in 1 .. Len(s) : Ends(k)
        stop == IF padded THEN CHOOSE k \in 1 .. Len(s) :
                                   Ends(k) /\ \A j \in 1 .. k - 1 : ~Ends(j)
                ELSE Len(s) + 1
        read == SelectSeq(SubSeq(s, 1, stop - 1), LAMBDA ch : b64_index(ch) # 64)
        data == [j \in 1 .. Len(read) |-> b64_index(read[j])]
        rest == Len(data) % 4
        Byte(j) ==
            LET g == (j - 1) \div 3
                r == (j - 1) % 3
            IN CASE r = 0 -> data[4 * g + 1] * 4 + (data[4 * g + 2] \div 16)
                 [] r = 1 -> (data[4 * g + 2] % 16) * 16 + (data[4 * g + 3] \div 4)
                 [] OTHER -> (data[4 * g + 3] % 4) * 64 + data[4 * g + 4]
    IN IF ~padded /\ rest # 0 THEN Failed
       ELSE Returned([j \in 1 .. 3 * (Len(data) \div 4) + (IF rest = 0 THEN 0 ELSE rest - 1)
                         |-> Byte(j)])

(* Mutant: no character is escaped *)
json_escape_raw(ch) == <<ch>>

(* JSON strings: '"' and '\' are escaped with a backslash, the line feed  *)
(* is written \n, every other character drawn here is written as itself  *)
json_escape(ch) ==
    IF ch \in {34, 92} THEN <<92, ch>>
    ELSE IF ch = 10 THEN <<92, 110>>
    ELSE <<ch>>

json_escaped(s) == Concat([k \in 1 .. Len(s) |-> json_escape(s[k])])

json_string(s) == <<34>> \o json_escaped(s) \o <<34>>

(* The member names of the models, as the str of their characters *)
Chars(name) ==
    CASE name = "state" -> <<115, 116, 97, 116, 101>>
      [] name = "user_id" -> <<117, 115, 101, 114, 95, 105, 100>>
      [] name = "org_id" -> <<111, 114, 103, 95, 105, 100>>
      [] name = "access_token" -> <<97, 99, 99, 101, 115, 115, 95, 116, 111, 107, 101, 110>>
      [] name = "token_type" -> <<116, 111, 107, 101, 110, 95, 116, 121, 112, 101>>
      [] name = "bot_id" -> <<98, 111, 116, 95, 105, 100>>
      [] name = "workspace_id" -> <<119, 111, 114, 107, 115, 112, 97, 99, 101, 95, 105, 100>>
      [] name = "workspace_name" -> <<119, 111, 114, 107, 115, 112, 97, 99, 101, 95, 110, 97, 109, 101>>
      [] name = "workspace_icon" -> <<119, 111, 114, 107, 115, 112, 97, 99, 101, 95, 105, 99, 111, 110>>
      [] name = "owner" -> <<111, 119, 110, 101, 114>>
      [] name = "refresh_token" -> <<114, 101, 102, 114, 101, 115, 104, 95, 116, 111, 107, 101, 110>>
      [] name = "expires_in" -> <<101, 120, 112, 105, 114, 101, 115, 95, 105, 110>>
      [] name = "scope" -> <<115, 99, 111, 112, 101>>

(* JSON values: strings, integers without a sign, null, and objects, an   *)
(* object being the sequence of its members <<name, value>> in the order  *)
(* they are written                                                        *)
JsonStr(s) == [type |-> "string", chars |-> s]

JsonInt(n) == [type |-> "int", number |-> n]

JsonNull == [type |-> "null"]

JsonObj(members) == [type |-> "object", members |-> members]

RECURSIVE int_text(_)
int_text(n) == IF n < 10 THEN <<48 + n>> ELSE int_text(n \div 10) \o <<48 + (n % 10)>>

(* The text of a value, compact: no white space, members separated by ',' *)
RECURSIVE json_text(_)
json_text(v) ==
    CASE v.type = "string" -> json_string(v.chars)
      [] v.type = "int" -> int_text(v.number)
      [] v.type = "null" -> <<110, 117, 108, 108>>
      [] OTHER ->
            <<123>>
            \o Concat([k \in 1 .. Len(v.members) |->
                          (IF k = 1 THEN << >> ELSE <<44>>)
                          \o json_string(v.members[k][1]) \o <<58>>
                          \o json_text(v.members[k][2])])
            \o <<125>>

(* The parser.  Every parse_ operator reads the value that starts at      *)
(* position k of the text and tells where it ends.                        *)
RECURSIVE scan_string(_, _, _)
scan_string(t, k, acc) ==
    IF k > Len(t) THEN Failed
    ELSE IF t[k] = 34 THEN [ok |-> TRUE, value |-> acc, next |-> k + 1]
    ELSE IF t[k] = 92
    THEN IF k + 1 > Len(t) THEN Failed
         ELSE IF t[k + 1] \in {34, 92} THEN scan_string(t, k + 2, Append(acc, t[k + 1]))
         ELSE IF t[k + 1] = 110 THEN scan_string(t, k + 2, Append(acc, 10))
         ELSE Failed
    ELSE IF t[k] < 32 THEN Failed
    ELSE scan_string(t, k + 1, Append(acc, t[k]))

parse_string(t, k) == IF k <= Len(t) /\ t[k] = 34 THEN scan_string(t, k + 1, << >>) ELSE Failed

RECURSIVE scan_number(_, _, _)
scan_number(t, k, n) ==
    IF k <= Len(t) /\ t[k] \in 48 .. 57 THEN scan_number(t, k + 1, 10 * n + (t[k] - 48))
    ELSE [ok |-> TRUE, value |-> JsonInt(n), next |-> k]

RECURSIVE parse_value(_, _)
RECURSIVE parse_members(_, _, _)

(* The members from position k on, up to the closing brace *)
parse_members(t, k, members) ==
    LET name == parse_string(t, k)
    IN IF ~name.ok \/ name.next > Len(t) \/ t[name.next] # 58 THEN Failed
       ELSE LET value == parse_value(t, name.next + 1)
            IN IF ~value.ok \/ value.next > Len(t) THEN Failed
               ELSE LET found == Append(members, <<name.value, value.value>>)
                    IN IF t[value.next] = 44 THEN parse_members(t, value.next + 1, found)
                       ELSE IF t[value.next] = 125
                       THEN [ok |-> TRUE, value |-> JsonObj(found), next |-> value.next + 1]
                       ELSE Failed

parse_value(t, k) ==
    IF k > Len(t) THEN Failed
    ELSE IF t[k] = 34
    THEN LET s == scan_string(t, k + 1, << >>)
         IN IF s.ok THEN [ok |-> TRUE, value |-> JsonStr(s.value), next |-> s.next] ELSE Failed
    ELSE IF t[k] \in 48 .. 57 THEN scan_number(t, k, 0)
    ELSE IF k + 3 <= Len(t) /\ SubSeq(t, k, k + 3) = <<110, 117, 108, 108>>
    THEN [ok |-> TRUE, value |-> JsonNull, next |-> k + 4]
    ELSE IF t[k] = 123
    THEN IF k < Len(t) /\ t[k + 1] = 125
         THEN [ok |-> TRUE, value |-> JsonObj(<< >>), next |-> k + 2]
         ELSE parse_members(t, k + 1, << >>)
    ELSE Failed

(* The text is one value and nothing after it *)
parse_json(t) ==
    LET v == parse_value(t, 1)
    IN IF v.ok /\ v.next = Len(t) + 1 THEN Returned(v.value) ELSE Failed

(* A member of an object: a name written twice keeps its last value *)
HasMember(obj, name) == \E k \in 1 .. Len(obj.members) : obj.members[k][1] = name

Member(obj, name) ==
    LET last == CHOOSE k \in 1 .. Len(obj.members) :
                    /\ obj.members[k][1] = name
                    /\ \A j \in k + 1 .. Len(obj.members) : obj.members[j][1] # name
    IN obj.members[last][2]

(* OAuthState.model_dump_json(): {"state":"..","user_id":"..","org_id":".."} *)
dump_json(d) ==
    json_text(JsonObj(<< <<Chars("state"), JsonStr(d.state)>>,
                         <<Chars("user_id"), JsonStr(d.user_id)>>,
                         <<Chars("org_id"), JsonStr(d.org_id)>> >>))

(* OAuthState.model_validate_json: an object whose three fields are       *)
(* present and are strings; other members are ignored                     *)
validate_json(t) ==
    LET parsed == parse_json(t)
        IsStr(name) == HasMember(parsed.value, name) /\ Member(parsed.value, name).type = "string"
    IN IF ~parsed.ok \/ parsed.value.type # "object" THEN Failed
       ELSE IF ~(IsStr(Chars("state")) /\ IsStr(Chars("user_id")) /\ IsStr(Chars("org_id"))) THEN Failed
       ELSE Returned(OAuthState(Member(parsed.value, Chars("state")).chars,
                                Member(parsed.value, Chars("user_id")).chars,
                                Member(parsed.value, Chars("org_id")).chars))

(* authorize, lines 39-41: the encoded state is a str of ASCII characters *)
encode_state(d) == utf8_decode(b64encode(utf8_encode(dump_json(d)))).value

(* callback, lines 67-74: any exception becomes InvalidState *)
decode_state(s) ==
    LET data == ascii_encode(s)
        raw == IF data.ok THEN b64decode(data.value) ELSE Failed
        text == IF raw.ok THEN utf8_decode(raw.value) ELSE Failed
        received == IF text.ok THEN validate_json(text.value) ELSE Failed
    IN IF received.ok THEN received ELSE InvalidState

-----------------------------------------------------------------------------
(* The credentials models of integrations/models.py.  A model class is    *)
(* the sequence of its fields; an instance is the sequence of its members *)
(* <<name, value>> in the order of the fields, None being null.           *)


Field(name, type, required) == [name |-> name, type |-> type, required |-> required]

AirtableCredentials ==
    <<Field(Chars("access_token"), "string", TRUE), Field(Chars("token_type"), "string", FALSE),
      Field(Chars("expires_in"), "int", FALSE), Field(Chars("refresh_token"), "string", FALSE)>>

HubSpotCredentials ==
    <<Field(Chars("access_token"), "string", TRUE), Field(Chars("refresh_token"), "string", TRUE),
      Field(Chars("token_type"), "string", FALSE), Field(Chars("expires_in"), "int", FALSE)>>

NotionCredentials ==
    <<Field(Chars("access_token"), "string", TRUE), Field(Chars("token_type"), "string", FALSE),
      Field(Chars("bot_id"), "string", FALSE), Field(Chars("workspace_id"), "string", FALSE),
      Field(Chars("workspace_name"), "string", FALSE), Field(Chars("workspace_icon"), "string", FALSE),
      Field(Chars("owner"), "object", FALSE)>>

CredentialsModel(p) ==
    CASE p = "airtable" -> AirtableCredentials
      [] p = "hubspot" -> HubSpotCredentials
      [] OTHER -> NotionCredentials

IsDigits(s) == Len(s) > 0 /\ \A k \in 1 .. Len(s) : s[k] \in 48 .. 57

RECURSIVE to_int(_)
to_int(s) == IF Len(s) = 0 THEN 0 ELSE 10 * to_int(SubSeq(s, 1, Len(s) - 1)) + (s[Len(s)] - 48)

(* Mutant: a None is kept as the string "None" *)
validate_field_none_as_text(field, v) ==
    IF v.type = field.type THEN Returned(v)
    ELSE IF v.type = "null"
    THEN (IF field.required THEN Failed ELSE Returned(JsonStr(<<78, 111, 110, 101>>)))
    ELSE IF field.type = "int" /\ v.type = "string" /\ IsDigits(v.chars)
    THEN Returned(JsonInt(to_int(v.chars)))
    ELSE Failed

(* The validation of one value against a field: a value of the field's    *)
(* type is taken as it is, null only by an Optional field, a string of    *)
(* digits by an int field as its number; anything else is an error.       *)
validate_field(field, v) ==
    IF v.type = field.type THEN Returned(v)
    ELSE IF v.type = "null" THEN (IF field.required THEN Failed ELSE Returned(JsonNull))
    ELSE IF field.type = "int" /\ v.type = "string" /\ IsDigits(v.chars)
    THEN Returned(JsonInt(to_int(v.chars)))
    ELSE Failed

(* Model.model_validate(obj): every field from the member of its name, or *)
(* None when an Optional field has none; members that are no field are    *)
(* ignored; one error fails the whole                                     *)
model_validate(fields, obj) ==
    LET Value(k) ==
            IF HasMember(obj, fields[k].name)
            THEN validate_field(fields[k], Member(obj, fields[k].name))
            ELSE IF fields[k].required THEN Failed ELSE Returned(JsonNull)
    IN IF obj.type # "object" THEN Failed
       ELSE IF \E k \in 1 .. Len(fields) : ~Value(k).ok THEN Failed
       ELSE Returned([k \in 1 .. Len(fields) |-> <<fields[k].name, Value(k).value>>])

(* instance.model_dump_json() *)
model_dump_json_of(instance) == json_text(JsonObj(instance))

(* Model.model_validate_json(text) *)
model_validate_json_of(fields, t) ==
    LET parsed == parse_json(t)
    IN IF ~parsed.ok THEN Failed ELSE model_validate(fields, parsed.value)

-----------------------------------------------------------------------------
(* The configuration of a request: where it stands, its local variables,  *)
(* the store, and its outcome once it stands at "done".                    *)

Cfg(label, r, S, outcome) == [pc |-> label, req |-> r, store |-> S, result |-> outcome]

Goto(label, r, S) == Cfg(label, r, S, NoResult)

Finish(r, S, outcome) == Cfg("done", r, S, outcome)

-----------------------------------------------------------------------------
(* authorize: StandardOAuthStrategy.authorize and PKCEOAuthStrategy.authorize, *)
(* called by the adapter's authorize.                                          *)

AuthorizeResult(r) ==
    Returned([state_data |-> r.state_data, encoded_state |-> r.encoded_state,
              code_challenge |-> r.code_challenge])

(* Mutant: the state key is written only when it is absent *)
authorize_begin_nx(S, n, p, user_id, org_id) ==
    LET state_data == OAuthState(StateToken(n), user_id, org_id)
        r == [op |-> "authorize", provider |-> p, user_id |-> user_id, org_id |-> org_id,
              state_data |-> state_data,
              encoded_state |-> EncodeState(state_data),
              code_verifier |-> IF UsesPKCE(p) THEN CodeVerifier(n) ELSE "",
              code_challenge |-> IF UsesPKCE(p) THEN CodeChallenge(CodeVerifier(n))
                                 ELSE <<"none">>]
        key == StateKey(p, org_id, user_id)
    IN Cfg("auth_expire_state", r,
           IF Present(S, key) THEN S ELSE redis_set(S, key, model_dump_json(state_data)),
           NoResult)

(* The n-th authorize call: draw the token (and the verifier), build the  *)
(* state and its encoding, SET the state key.                              *)
authorize_begin(S, n, p, user_id, org_id) ==
    LET state_data == OAuthState(StateToken(n), user_id, org_id)
        r == [op |-> "authorize", provider |-> p, user_id |-> user_id, org_id |-> org_id,
              state_data |-> state_data,
              encoded_state |-> EncodeState(state_data),
              code_verifier |-> IF UsesPKCE(p) THEN CodeVerifier(n) ELSE "",
              code_challenge |-> IF UsesPKCE(p) THEN CodeChallenge(CodeVerifier(n))
                                 ELSE <<"none">>]
    IN Cfg("auth_expire_state", r,
           redis_set(S, StateKey(p, org_id, user_id), model_dump_json(state_data)), NoResult)

auth_expire_state(c) ==
    LET r == c.req
        S == redis_expire(c.store, StateKey(r.provider, r.org_id, r.user_id), state_expiry_seconds)
    IN IF UsesPKCE(r.provider)
       THEN Goto("auth_set_verifier", r, S)
       ELSE Finish(r, S, AuthorizeResult(r))

auth_set_verifier(c) ==
    LET r == c.req
    IN Goto("auth_expire_verifier", r,
            redis_set(c.store, VerifierKey(r.provider, r.org_id, r.user_id), r.code_verifier))

auth_expire_verifier(c) ==
    LET r == c.req
    IN Finish(r,
              redis_expire(c.store, VerifierKey(r.provider, r.org_id, r.user_id), state_expiry_seconds),
              AuthorizeResult(r))

-----------------------------------------------------------------------------
(* oauth_callback: the adapter's oauth_callback, which runs the strategy's *)
(* callback, then the token exchange, then stores the credentials.         *)

StateFalsy(params) == "state" \notin DOMAIN params \/ params["state"] = EmptyString

CanDecodeState(s) == CanB64Decode(s) /\ ValidStateJson(urlsafe_b64decode(s))

NoState == OAuthState("", "", "")

CallbackRequest(p, params) ==
    [op |-> "oauth_callback", provider |-> p, params |-> params,
     received |-> NoState, saved |-> NoState, code_verifier |-> "",
     verified |-> FALSE, posts |-> 0, access_token |-> ""]

(* The strategy's callback returns and the adapter sends the one POST of *)
(* the token exchange: posts counts the POSTs this request has sent       *)
post_token_request(r) == [r EXCEPT !.verified = TRUE, !.posts = @ + 1]

(* What the strategy's callback returns once it has verified the state *)
CallbackResult(r) ==
    [code |-> r.params["code"], user_id |-> r.received.user_id, org_id |-> r.received.org_id,
     code_verifier |-> r.code_verifier]

(* Mutant: the code is required before the provider's error is looked at *)
callback_params_code_first(params) ==
    IF Falsy(params, "code") THEN MissingAuthorizationCode
    ELSE IF ~Falsy(params, "error") THEN AuthorizationDenied(params)
    ELSE IF StateFalsy(params) THEN MissingState
    ELSE IF ~CanDecodeState(params["state"]) THEN InvalidState
    ELSE NoResult

(* StandardOAuthStrategy.callback, the checks of the parameters: what is  *)
(* raised, NoResult when they pass.                                        *)
callback_params(params) ==
    IF ~Falsy(params, "error") THEN AuthorizationDenied(params)
    ELSE IF Falsy(params, "code") THEN MissingAuthorizationCode
    ELSE IF StateFalsy(params) THEN MissingState
    ELSE IF ~CanDecodeState(params["state"]) THEN InvalidState
    ELSE NoResult

(* Mutant: a mismatched callback deletes the stored state *)
callback_state_mismatch_deletes(S, r) ==
    LET received == model_validate_json(urlsafe_b64decode(r.params["state"]))
        key == StateKey(r.provider, received.org_id, received.user_id)
        r1 == [r EXCEPT !.received = received]
    IN IF ~Present(S, key) THEN Cfg("done", r1, S, StateExpired)
       ELSE LET saved == model_validate_json(redis_get(S, key))
                r2 == [r1 EXCEPT !.saved = saved]
            IN IF saved.state # received.state
               THEN Cfg("done", r2, redis_delete(S, key), StateMismatch)
               ELSE Cfg("cb_delete_state", r2, S, NoResult)

(* StandardOAuthStrategy.callback, the state: decode it, read the stored  *)
(* state under the key the decoded one names, compare the tokens.          *)
callback_state(S, r) ==
    LET received == model_validate_json(urlsafe_b64decode(r.params["state"]))
        key == StateKey(r.provider, received.org_id, received.user_id)
        r1 == [r EXCEPT !.received = received]
    IN IF ~Present(S, key) THEN Cfg("done", r1, S, StateExpired)
       ELSE LET saved == model_validate_json(redis_get(S, key))
                r2 == [r1 EXCEPT !.saved = saved]
            IN IF saved.state # received.state
               THEN Cfg("done", r2, S, StateMismatch)
               ELSE Cfg("cb_delete_state", r2, S, NoResult)

(* The callback from its arrival up to and including the read of the stored state *)
callback_begin(S, p, params) ==
    LET r == CallbackRequest(p, params)
        raised == callback_params(params)
    IN IF raised # NoResult THEN Cfg("done", r, S, raised) ELSE callback_state(S, r)

(* Mutant: the verified state is left in the store *)
cb_delete_state_keeps(c) ==
    LET r == c.req
    IN IF UsesPKCE(r.provider)
       THEN Goto("cb_get_verifier", r, c.store)
       ELSE Goto("token_exchange", post_token_request(r), c.store)

cb_delete_state(c) ==
    LET r == c.req
        S == redis_delete(c.store, StateKey(r.provider, r.received.org_id, r.received.user_id))
    IN IF UsesPKCE(r.provider)
       THEN Goto("cb_get_verifier", r, S)
       ELSE Goto("token_exchange", post_token_request(r), S)

(* Mutant: a callback that finds no verifier puts the state back *)
cb_get_verifier_restores(c) ==
    LET r == c.req
        key == VerifierKey(r.provider, r.received.org_id, r.received.user_id)
    IN IF ~Present(c.store, key)
       THEN Finish(r, redis_set(c.store,
                                StateKey(r.provider, r.received.org_id, r.received.user_id),
                                model_dump_json(r.saved)),
                   VerifierExpired)
       ELSE Goto("cb_delete_verifier", [r EXCEPT !.code_verifier = redis_get(c.store, key)],
                 c.store)

(* Mutant: an absent verifier is taken as the empty one *)
cb_get_verifier_lenient(c) ==
    LET r == c.req
        key == VerifierKey(r.provider, r.received.org_id, r.received.user_id)
    IN Goto("cb_delete_verifier",
            [r EXCEPT !.code_verifier = IF Present(c.store, key) THEN redis_get(c.store, key)
                                        ELSE ""],
            c.store)

cb_get_verifier(c) ==
    LET r == c.req
        key == VerifierKey(r.provider, r.received.org_id, r.received.user_id)
    IN IF ~Present(c.store, key)
       THEN Finish(r, c.store, VerifierExpired)
       ELSE Goto("cb_delete_verifier", [r EXCEPT !.code_verifier = redis_get(c.store, key)],
                 c.store)

(* Mutant: the verifier is returned and left in the store *)
cb_delete_verifier_keeps(c) == Goto("token_exchange", post_token_request(c.req), c.store)

cb_delete_verifier(c) ==
    LET r == c.req
    IN Goto("token_exchange", post_token_request(r),
            redis_delete(c.store, VerifierKey(r.provider, r.received.org_id, r.received.user_id)))

(* StandardOAuthStrategy(p, kv_store).callback(params) on its own, as the *)
(* PKCE strategy builds and awaits it: the checks, the delete of the state *)
(* key, and the return of code, user_id and org_id.                        *)
standard_callback(S, p, params) ==
    LET c == callback_begin(S, p, params)
        r == c.req
    IN IF c.pc = "done" THEN c
       ELSE Goto("returned", r,
                 redis_delete(c.store, StateKey(p, r.received.org_id, r.received.user_id)))

StandardResult(r) ==
    [code |-> r.params["code"], user_id |-> r.received.user_id, org_id |-> r.received.org_id]

(* The provider's answer to the token-exchange POST, and the credentials  *)
(* it carries as the adapter serializes them.                              *)
Answer(status_code, access_token) ==
    [timed_out |-> FALSE, status_code |-> status_code, access_token |-> access_token]

(* No answer within the client's timeout: self.http.post raises httpx.TimeoutException *)
TimedOut == [timed_out |-> TRUE, status_code |-> 0, access_token |-> ""]

CredentialsJson(access_token) == << <<"access_token", access_token>> >>

(* Mutant: a refused exchange puts the validated state back *)
token_exchange_rolls_back(c, answer) ==
    LET r == [c.req EXCEPT !.access_token = answer.access_token]
    IN IF answer.timed_out
       THEN Finish(c.req, c.store, InternalServerError)
       ELSE IF answer.status_code # 200
       THEN Finish(c.req,
                   redis_set(c.store,
                             StateKey(r.provider, r.received.org_id, r.received.user_id),
                             model_dump_json(r.saved)),
                   TokenExchangeFailed(c.req.provider))
       ELSE Goto("cred_expire", r,
                 redis_set(c.store,
                           CredentialsKey(r.provider, r.received.org_id, r.received.user_id),
                           CredentialsJson(r.access_token)))

(* Mutant: an exchange that is refused is sent once more *)
token_exchange_retries(c, answer) ==
    LET r == [c.req EXCEPT !.access_token = answer.access_token]
    IN IF answer.timed_out
       THEN Finish(c.req, c.store, InternalServerError)
       ELSE IF answer.status_code # 200
       THEN (IF c.req.posts < 2 THEN Goto("token_exchange", post_token_request(c.req), c.store)
             ELSE Finish(c.req, c.store, TokenExchangeFailed(c.req.provider)))
       ELSE Goto("cred_expire", r,
                 redis_set(c.store,
                           CredentialsKey(r.provider, r.received.org_id, r.received.user_id),
                           CredentialsJson(r.access_token)))

(* Mutant: the credentials are written before the status is looked at *)
token_exchange_persists(c, answer) ==
    LET r == [c.req EXCEPT !.access_token = answer.access_token]
        S == redis_set(c.store,
                       CredentialsKey(r.provider, r.received.org_id, r.received.user_id),
                       CredentialsJson(r.access_token))
    IN IF answer.timed_out
       THEN Finish(c.req, c.store, InternalServerError)
       ELSE IF answer.status_code # 200
       THEN Finish(c.req, S, TokenExchangeFailed(c.req.provider))
       ELSE Goto("cred_expire", r, S)

(* The answer arrives, or the post times out and its exception leaves the *)
(* handler uncaught: on any status but 200 raise, else SET the credentials key *)
token_exchange(c, answer) ==
    LET r == [c.req EXCEPT !.access_token = answer.access_token]
    IN IF answer.timed_out
       THEN Finish(c.req, c.store, InternalServerError)
       ELSE IF answer.status_code # 200
       THEN Finish(c.req, c.store, TokenExchangeFailed(c.req.provider))
       ELSE Goto("cred_expire", r,
                 redis_set(c.store,
                           CredentialsKey(r.provider, r.received.org_id, r.received.user_id),
                           CredentialsJson(r.access_token)))

cred_expire(c) ==
    LET r == c.req
    IN Finish(r,
              redis_expire(c.store,
                           CredentialsKey(r.provider, r.received.org_id, r.received.user_id),
                           credentials_expiry_seconds),
              oauth_close_window)

-----------------------------------------------------------------------------
(* get_credentials: read the credentials key, then delete it *)

get_credentials_begin(S, p, user_id, org_id) ==
    LET key == CredentialsKey(p, org_id, user_id)
        r == [op |-> "get_credentials", provider |-> p, user_id |-> user_id,
              org_id |-> org_id, credentials |-> << >>]
    IN IF ~Present(S, key)
       THEN Cfg("done", r, S, CredentialsNotFound)
       ELSE Cfg("gc_delete", [r EXCEPT !.credentials = redis_get(S, key)], S, NoResult)

(* Mutant: the credentials are returned and left in the store *)
gc_delete_keeps(c) == Finish(c.req, c.store, Returned(c.req.credentials))

gc_delete(c) ==
    LET r == c.req
    IN Finish(r, redis_delete(c.store, CredentialsKey(r.provider, r.org_id, r.user_id)),
              Returned(r.credentials))

-----------------------------------------------------------------------------
(* A request served alone: its steps one after the other, nothing between *)

Advance(c, answer) ==
    CASE c.pc = "auth_expire_state" -> auth_expire_state(c)
      [] c.pc = "auth_set_verifier" -> auth_set_verifier(c)
      [] c.pc = "auth_expire_verifier" -> auth_expire_verifier(c)
      [] c.pc = "cb_delete_state" -> cb_delete_state(c)
      [] c.pc = "cb_get_verifier" -> cb_get_verifier(c)
      [] c.pc = "cb_delete_verifier" -> cb_delete_verifier(c)
      [] c.pc = "token_exchange" -> token_exchange(c, answer)
      [] c.pc = "cred_expire" -> cred_expire(c)
      [] c.pc = "gc_delete" -> gc_delete(c)
      [] OTHER -> c

RECURSIVE RunUntil(_, _, _)
RunUntil(c, answer, stops) ==
    IF c.pc \in stops THEN c ELSE RunUntil(Advance(c, answer), answer, stops)

NoAnswer == Answer(0, "")

(* The adapter's authorize *)
authorize(S, n, p, user_id, org_id) ==
    RunUntil(authorize_begin(S, n, p, user_id, org_id), NoAnswer, {"done"})

(* The strategy's callback: it has returned when the request stands at the *)
(* token exchange, and has raised when the request is done.                *)
callback(S, p, params) ==
    RunUntil(callback_begin(S, p, params), NoAnswer, {"token_exchange", "done"})

CallbackSucceeded(c) == c.pc = "token_exchange" /\ c.req.verified

(* The adapter's oauth_callback, the provider answering the exchange with `answer` *)
oauth_callback(S, p, params, answer) ==
    RunUntil(callback_begin(S, p, params), answer, {"done"})

(* The adapter's get_credentials *)
get_credentials(S, p, user_id, org_id) ==
    RunUntil(get_credentials_begin(S, p, user_id, org_id), NoAnswer, {"done"})

-----------------------------------------------------------------------------
(* Store failures: a store command raises (the connection to Redis is     *)
(* lost or times out).  No handler of the strategies, the adapters or the *)
(* routes catches it, so it leaves the request as the framework's 500.    *)
(* The command that raised may or may not have been applied by the store. *)

(* The next segment of the request at c ends in a store command *)
IssuesCommand(c, answer) ==
    \/ c.pc \in {"auth_expire_state", "auth_set_verifier", "auth_expire_verifier",
                 "cb_delete_state", "cb_get_verifier", "cb_delete_verifier",
                 "cred_expire", "gc_delete"}
    \/ c.pc = "token_exchange" /\ ~answer.timed_out /\ answer.status_code = 200

(* Mutant: the failure is caught and the request goes on *)
store_raises_swallowed(c, answer, applied) == [Advance(c, answer) EXCEPT !.store = c.store]

(* The command of the next segment raises *)
store_raises(c, answer, applied) ==
    Finish(c.req, IF applied THEN Advance(c, answer).store ELSE c.store, InternalServerError)

(* The first command of a request raises: c is where the request would   *)
(* stand had the command succeeded, S the store it found.                 *)
begin_raises(S, c, applied) ==
    Finish(c.req, IF applied THEN c.store ELSE S, InternalServerError)

(* The request at c run alone, the k-th store command from c on raising *)
RECURSIVE RunRaising(_, _, _, _)
RunRaising(c, answer, k, applied) ==
    IF c.pc = "done" THEN c
    ELSE IF ~IssuesCommand(c, answer) THEN RunRaising(Advance(c, answer), answer, k, applied)
    ELSE IF k = 1 THEN RunRaising(store_raises(c, answer, applied), answer, 0, applied)
    ELSE RunRaising(Advance(c, answer), answer, k - 1, applied)

(* The number of store commands the request at c issues when run alone *)
RECURSIVE Commands(_, _)
Commands(c, answer) ==
    IF c.pc = "done" THEN 0
    ELSE (IF IssuesCommand(c, answer) THEN 1 ELSE 0) + Commands(Advance(c, answer), answer)

(* A whole request whose k-th store command raises; `first` tells whether *)
(* the segment that led to c issued a command.                             *)
Raising(S, c, first, answer, k, applied) ==
    IF first /\ k = 1 THEN begin_raises(S, c, applied)
    ELSE RunRaising(c, answer, IF first THEN k - 1 ELSE k, applied)

CommandsOf(c, first, answer) == (IF first THEN 1 ELSE 0) + Commands(c, answer)

(* callback issues its GET when the parameters pass the checks *)
CallbackReads(params) == callback_params(params) = NoResult

-----------------------------------------------------------------------------
(* The registry of adapters and the four routes that dispatch through it *)

(* The provider names a request or a registration can carry, and str.lower on them *)
Names == {"airtable", "hubspot", "notion", "Airtable", "X", "x", "unknown"}

Lower(name) ==
    CASE name = "Airtable" -> "airtable"
      [] name = "X" -> "x"
      [] OTHER -> name

(* An adapter instance: its class, the provider its strategy is built for, *)
(* and which instance of the class it is.                                   *)
AdapterInstance(class, provider, instance) ==
    [class |-> class, provider |-> provider, instance |-> instance]

AirtableAdapter == AdapterInstance("AirtableAdapter", "airtable", 0)
HubspotAdapter == AdapterInstance("HubspotAdapter", "hubspot", 0)
NotionAdapter == AdapterInstance("NotionAdapter", "notion", 0)

(* Two more instances, as a test registers them in place of the real ones *)
Adapters == {AirtableAdapter, HubspotAdapter, NotionAdapter,
             AdapterInstance("NotionAdapter", "notion", 1),
             AdapterInstance("NotionAdapter", "notion", 2)}

EmptyRegistry == << >>

KeyError(name) ==
    [ok |-> FALSE, exception |-> "KeyError",
     detail |-> "No adapter registered for '" \o name \o "'"]

(* Mutant: the adapter is stored under the name as given *)
register_adapter_cased(reg, name, adapter) == Put(reg, name, adapter)

(* Mutant: a name already registered keeps its adapter *)
register_adapter_first_wins(reg, name, adapter) ==
    IF Lower(name) \in DOMAIN reg THEN reg ELSE Put(reg, Lower(name), adapter)

register_adapter(reg, name, adapter) == Put(reg, Lower(name), adapter)

(* Mutant: a name that is not registered falls back to the Notion adapter *)
get_adapter_fallback(reg, name) ==
    IF Lower(name) \notin DOMAIN reg THEN Returned(NotionAdapter)
    ELSE Returned(reg[Lower(name)])

get_adapter(reg, name) ==
    IF Lower(name) \notin DOMAIN reg THEN KeyError(name)
    ELSE Returned(reg[Lower(name)])

list_adapters(reg) == DOMAIN reg

register_adapters_with_dependencies(reg) ==
    register_adapter(
        register_adapter(
            register_adapter(reg, "airtable", AirtableAdapter),
            "hubspot", HubspotAdapter),
        "notion", NotionAdapter)

(* The handler of every route for the KeyError of get_adapter *)
ProviderNotFound(name) == HTTPException(404, "Provider '" \o name \o "' not found")

(* list_items: fetches from the provider over HTTP and touches no store; *)
(* it returns the items or raises its 500.                                *)
ListItemsOutcomes == {Returned("items"), HTTPException(500, "Failed to retrieve items")}

list_items(S, p, credentials, outcome) ==
    Cfg("done", [op |-> "list_items", provider |-> p, credentials |-> credentials], S, outcome)

NoCall == [op |-> "none"]

(* The four routes of main.py, each served alone *)
authorize_integration(reg, S, n, name, user_id, org_id) ==
    LET adapter == get_adapter(reg, name)
    IN IF ~adapter.ok THEN Cfg("done", NoCall, S, ProviderNotFound(name))
       ELSE authorize(S, n, adapter.value.provider, user_id, org_id)

oauth_callback_integration(reg, S, name, params, answer) ==
    LET adapter == get_adapter(reg, name)
    IN IF ~adapter.ok THEN Cfg("done", NoCall, S, ProviderNotFound(name))
       ELSE oauth_callback(S, adapter.value.provider, params, answer)

get_credentials_integration(reg, S, name, user_id, org_id) ==
    LET adapter == get_adapter(reg, name)
    IN IF ~adapter.ok THEN Cfg("done", NoCall, S, ProviderNotFound(name))
       ELSE get_credentials(S, adapter.value.provider, user_id, org_id)

get_items_integration(reg, S, name, credentials, outcome) ==
    LET adapter == get_adapter(reg, name)
    IN IF ~adapter.ok THEN Cfg("done", NoCall, S, ProviderNotFound(name))
       ELSE list_items(S, adapter.value.provider, credentials, outcome)

-----------------------------------------------------------------------------
(* The server: request slots over the one shared store *)

Idle == [op |-> "none"]

Store == [kv |-> kv, ttl |-> ttl]

Config(i) == Cfg(pc[i], req[i], Store, NoResult)

Quiescent == \A j \in Procs : pc[j] = "idle"

(* A request takes the first free slot.  It is taken up at once when      *)
(* requests overlap; in a serial run only when no other request is in the *)
(* server.                                                                 *)
CanStart(i) ==
    /\ pc[i] = "idle"
    /\ \A j \in Procs : j < i => pc[j] # "idle"
    /\ serial => Quiescent

(* Mutant: a request that fails takes the registry down with it *)
ApplyFailureClearsRegistry(i, c) ==
    /\ kv' = c.store.kv
    /\ ttl' = c.store.ttl
    /\ pc' = [pc EXCEPT ![i] = IF c.pc = "done" THEN "idle" ELSE c.pc]
    /\ req' = [req EXCEPT ![i] = IF c.pc = "done" THEN [op |-> "none"] ELSE c.req]
    /\ registry' = IF c.pc = "done" /\ ~c.result.ok THEN EmptyRegistry ELSE registry
    /\ UNCHANGED serial

(* Slot i moves to configuration c; a request that is done frees its slot *)
Apply(i, c) ==
    /\ kv' = c.store.kv
    /\ ttl' = c.store.ttl
    /\ pc' = [pc EXCEPT ![i] = IF c.pc = "done" THEN "idle" ELSE c.pc]
    /\ req' = [req EXCEPT ![i] = IF c.pc = "done" THEN Idle ELSE c.req]
    /\ UNCHANGED <<serial, registry>>

(* The name of the route resolves to the adapter of provider p *)
Resolves(name, p) ==
    /\ get_adapter(registry, name).ok
    /\ get_adapter(registry, name).value.provider = p

InitStore ==
    /\ kv = EmptyStore.kv
    /\ ttl = EmptyStore.ttl
    /\ pc = [i \in Procs |-> "idle"]
    /\ req = [i \in Procs |-> Idle]
    /\ issued = 0

(* The registry once lifespan has run the registrations of startup *)
Started == registry = register_adapters_with_dependencies(EmptyRegistry)

Init == InitStore /\ Started /\ serial = FALSE

SerialInit == InitStore /\ Started /\ serial = TRUE

(* The module is imported and nothing is registered yet *)
RegistryInit == InitStore /\ registry = EmptyRegistry /\ serial = TRUE

Authorize(i, p, user_id, org_id) ==
    /\ CanStart(i)
    /\ Resolves(p, p)
    /\ issued < MaxAuthorize
    /\ issued' = issued + 1
    /\ Apply(i, authorize_begin(Store, issued + 1, p, user_id, org_id))

AuthExpireState(i) ==
    /\ pc[i] = "auth_expire_state"
    /\ Apply(i, auth_expire_state(Config(i)))
    /\ UNCHANGED issued

AuthSetVerifier(i) ==
    /\ pc[i] = "auth_set_verifier"
    /\ Apply(i, auth_set_verifier(Config(i)))
    /\ UNCHANGED issued

AuthExpireVerifier(i) ==
    /\ pc[i] = "auth_expire_verifier"
    /\ Apply(i, auth_expire_verifier(Config(i)))
    /\ UNCHANGED issued

(* Slot j is inside an authorize call *)
Authorizing(j) == pc[j] \in {"auth_expire_state", "auth_set_verifier", "auth_expire_verifier"}

(* The tokens a caller can present: a forged one, or one that an authorize *)
(* call has returned; token_urlsafe(32) is not guessed before that.        *)
TokensReturned ==
    {StateToken(n) : n \in 1 .. issued}
        \ {req[j].state_data.state : j \in {k \in Procs : Authorizing(k)}}

Presentable(params) ==
    (~StateFalsy(params) /\ CanDecodeState(params["state"]))
        => model_validate_json(urlsafe_b64decode(params["state"])).state
               \in {ForgedToken} \cup TokensReturned

OAuthCallback(i, p, params) ==
    /\ CanStart(i)
    /\ Resolves(p, p)
    /\ Presentable(params)
    /\ Apply(i, callback_begin(Store, p, params))
    /\ UNCHANGED issued

CbDeleteState(i) ==
    /\ pc[i] = "cb_delete_state"
    /\ Apply(i, cb_delete_state(Config(i)))
    /\ UNCHANGED issued

CbGetVerifier(i) ==
    /\ pc[i] = "cb_get_verifier"
    /\ Apply(i, cb_get_verifier(Config(i)))
    /\ UNCHANGED issued

CbDeleteVerifier(i) ==
    /\ pc[i] = "cb_delete_verifier"
    /\ Apply(i, cb_delete_verifier(Config(i)))
    /\ UNCHANGED issued

TokenExchange(i, status_code, access_token) ==
    /\ pc[i] = "token_exchange"
    /\ Apply(i, token_exchange(Config(i), Answer(status_code, access_token)))
    /\ UNCHANGED issued

TokenExchangeTimeout(i) ==
    /\ pc[i] = "token_exchange"
    /\ Apply(i, token_exchange(Config(i), TimedOut))
    /\ UNCHANGED issued

CredExpire(i) ==
    /\ pc[i] = "cred_expire"
    /\ Apply(i, cred_expire(Config(i)))
    /\ UNCHANGED issued

GetCredentials(i, p, user_id, org_id) ==
    /\ CanStart(i)
    /\ Resolves(p, p)
    /\ Apply(i, get_credentials_begin(Store, p, user_id, org_id))
    /\ UNCHANGED issued

GcDelete(i) ==
    /\ pc[i] = "gc_delete"
    /\ Apply(i, gc_delete(Config(i)))
    /\ UNCHANGED issued

(* The time-to-live of a key elapses.  In a serial run the requests are   *)
(* short against every time-to-live: none elapses inside one.             *)
Expire(key) ==
    /\ key \in ttl
    /\ serial => Quiescent
    /\ kv' = Drop(kv, key)
    /\ ttl' = ttl \ {key}
    /\ UNCHANGED <<pc, req, issued, serial, registry>>

(* The load route: list_items of the adapter the name resolves to *)
ListItems(i, p, outcome) ==
    /\ CanStart(i)
    /\ Resolves(p, p)
    /\ Apply(i, get_items_integration(registry, Store, p, "credentials", outcome))
    /\ UNCHANGED issued

(* A request on any of the four routes names a provider that get_adapter *)
(* does not find: the route answers 404.                                  *)
Routes == {"authorize", "oauth2callback", "credentials", "load"}

UnknownProvider(i, route, name) ==
    /\ CanStart(i)
    /\ ~get_adapter(registry, name).ok
    /\ Apply(i, Cfg("done", NoCall, Store, ProviderNotFound(name)))
    /\ UNCHANGED issued

(* A store command raises, in a request under way or as the first of a request *)
StoreRaises(i, applied) ==
    /\ pc[i] # "idle"
    /\ IssuesCommand(Config(i), Answer(200, "at1"))
    /\ Apply(i, store_raises(Config(i), Answer(200, "at1"), applied))
    /\ UNCHANGED issued

AuthorizeRaises(i, p, user_id, org_id, applied) ==
    /\ CanStart(i)
    /\ Resolves(p, p)
    /\ issued < MaxAuthorize
    /\ issued' = issued + 1
    /\ Apply(i, begin_raises(Store, authorize_begin(Store, issued + 1, p, user_id, org_id),
                             applied))

OAuthCallbackRaises(i, p, params) ==
    /\ CanStart(i)
    /\ Resolves(p, p)
    /\ Presentable(params)
    /\ CallbackReads(params)
    /\ Apply(i, begin_raises(Store, callback_begin(Store, p, params), FALSE))
    /\ UNCHANGED issued

GetCredentialsRaises(i, p, user_id, org_id) ==
    /\ CanStart(i)
    /\ Resolves(p, p)
    /\ Apply(i, begin_raises(Store, get_credentials_begin(Store, p, user_id, org_id), FALSE))
    /\ UNCHANGED issued

(* register_adapter, as startup and tests call it *)
RegisterAdapter(name, adapter) ==
    /\ registry' = register_adapter(registry, name, adapter)
    /\ UNCHANGED <<kv, ttl, pc, req, issued, serial>>

Next ==
    \/ \E i \in Procs, p \in Providers, a \in Accounts : Authorize(i, p, a[1], a[2])
    \/ \E i \in Procs : AuthExpireState(i)
    \/ \E i \in Procs : AuthSetVerifier(i)
    \/ \E i \in Procs : AuthExpireVerifier(i)
    \/ \E i \in Procs, p \in Providers, params \in ParamSets : OAuthCallback(i, p, params)
    \/ \E i \in Procs : CbDeleteState(i)
    \/ \E i \in Procs : CbGetVerifier(i)
    \/ \E i \in Procs : CbDeleteVerifier(i)
    \/ \E i \in Procs, st \in Statuses, at \in AccessTokens : TokenExchange(i, st, at)
    \/ \E i \in Procs : TokenExchangeTimeout(i)
    \/ \E i \in Procs : CredExpire(i)
    \/ \E i \in Procs, p \in Providers, u \in Users, o \in Orgs : GetCredentials(i, p, u, o)
    \/ \E i \in Procs : GcDelete(i)
    \/ \E key \in ttl : Expire(key)
    \/ \E i \in Procs, p \in Providers, outcome \in ListItemsOutcomes : ListItems(i, p, outcome)
    \/ \E i \in Procs, route \in Routes, name \in Names : UnknownProvider(i, route, name)

(* Requests overlap: any interleaving of their store commands *)
Spec == Init /\ [][Next]_vars

(* Requests are served one at a time *)
SerialSpec == SerialInit /\ [][Next]_vars

(* Every key a request can write *)
AllKeys ==
    UNION {{StateKey(p, a[2], a[1]), VerifierKey(p, a[2], a[1]), CredentialsKey(p, a[2], a[1])} :
               p \in Providers, a \in Users \X Orgs}

(* The request in slot i takes its next step: the event loop resumes every *)
(* coroutine whose store command or HTTP call has completed, and the HTTP   *)
(* client answers or times out.                                             *)
Resume(i) ==
    \/ AuthExpireState(i) \/ AuthSetVerifier(i) \/ AuthExpireVerifier(i)
    \/ CbDeleteState(i) \/ CbGetVerifier(i) \/ CbDeleteVerifier(i)
    \/ \E st \in Statuses, at \in AccessTokens : TokenExchange(i, st, at)
    \/ TokenExchangeTimeout(i)
    \/ CredExpire(i) \/ GcDelete(i)

(* Time passes and runs some time-to-live out *)
TimePasses == \E key \in ttl : Expire(key)

(* Every request under way goes on, and time passes whatever the requests do *)
Fairness ==
    /\ \A i \in Procs : WF_vars(Resume(i))
    /\ SF_vars(TimePasses)

SerialLiveSpec == SerialInit /\ [][Next]_vars /\ Fairness

(* Requests served one at a time over a store whose commands can raise *)
FaultNext ==
    \/ Next
    \/ \E i \in Procs, applied \in BOOLEAN : StoreRaises(i, applied)
    \/ \E i \in Procs, p \in Providers, a \in Accounts, applied \in BOOLEAN :
           AuthorizeRaises(i, p, a[1], a[2], applied)
    \/ \E i \in Procs, p \in Providers, params \in DecodableParams :
           OAuthCallbackRaises(i, p, params)
    \/ \E i \in Procs, p \in Providers, u \in Users, o \in Orgs :
           GetCredentialsRaises(i, p, u, o)

FaultSpec == SerialInit /\ [][FaultNext]_vars

(* The registrations alone, from the empty registry *)
RegistryNext ==
    \E name \in Names \ {"unknown"}, adapter \in Adapters : RegisterAdapter(name, adapter)

RegistrySpec == RegistryInit /\ [][RegistryNext]_vars

(* The state parameter alone: authorize encodes a record, callback decodes *)
(* the string authorize returned.  The ids are the strings of at most      *)
(* MaxIdLen characters over 'a', '"', '\', the line feed and U+00E9; the   *)
(* tokens are strings of the URL-safe alphabet, as token_urlsafe draws.    *)
Characters == {97, 34, 92, 10, 233}

Ids == UNION {[1 .. n -> Characters] : n \in 0 .. MaxIdLen}

UrlsafeTokens == {<<115, 49>>, <<45, 95, 65>>}

StateRecords == {OAuthState(t, u, o) : t \in UrlsafeTokens, u \in Ids, o \in Ids}

CodecInit ==
    /\ kv = EmptyStore.kv
    /\ ttl = EmptyStore.ttl
    /\ issued = 0
    /\ serial = TRUE
    /\ Started
    /\ pc = [i \in Procs |-> IF i = 1 THEN "encode" ELSE "idle"]
    /\ \E d \in StateRecords :
           req = [i \in Procs |->
                     IF i = 1 THEN [op |-> "state_parameter", state_data |-> d,
                                    encoded_state |-> << >>, received |-> NoResult]
                     ELSE Idle]

(* authorize, lines 36-41 *)
EncodeStateParameter ==
    /\ pc[1] = "encode"
    /\ pc' = [pc EXCEPT ![1] = "decode"]
    /\ req' = [req EXCEPT ![1].encoded_state = encode_state(req[1].state_data)]
    /\ UNCHANGED <<kv, ttl, issued, serial, registry>>

(* callback, lines 67-74 *)
DecodeStateParameter ==
    /\ pc[1] = "decode"
    /\ pc' = [pc EXCEPT ![1] = "decoded"]
    /\ req' = [req EXCEPT ![1].received = decode_state(req[1].encoded_state)]
    /\ UNCHANGED <<kv, ttl, issued, serial, registry>>

CodecNext == EncodeStateParameter \/ DecodeStateParameter

CodecSpec == CodecInit /\ [][CodecNext]_vars

(* The credentials alone, from the provider's answer to the client and    *)
(* back: oauth_callback validates the body of the answer and stores the    *)
(* instance as JSON; get_credentials validates what is stored and returns  *)
(* the instance, which the framework serializes into the response; the     *)
(* client posts that string to the load route and list_items validates it. *)
Absent == [type |-> "absent"]

MemberChoices ==
    {Absent, JsonNull, JsonStr(<<97, 116, 34, 49>>), JsonStr(<<51, 54>>), JsonInt(3600),
     JsonObj(<< <<Chars("owner"), JsonStr(<<117>>)>> >>)}

(* What the provider may send for a field: nothing, null, or a value that *)
(* is a string, a number or an object                                      *)
FieldChoices(field) ==
    CASE field.type = "string" -> {Absent, JsonNull, JsonStr(<<97, 116, 34, 49>>)}
      [] field.type = "int" -> {Absent, JsonNull, JsonInt(3600), JsonStr(<<51, 54>>)}
      [] OTHER -> {Absent, JsonNull, JsonObj(<< <<Chars("owner"), JsonStr(<<117>>)>> >>)}

(* The bodies of the token-exchange answers: the members the provider     *)
(* sends for the fields, and a scope member the models do not know        *)
TokenResponses(p) ==
    LET fields == CredentialsModel(p)
        Sent(choice) ==
            SelectSeq([k \in 1 .. Len(fields) |-> <<fields[k].name, choice[k]>>],
                      LAMBDA m : m[2] # Absent)
    IN { JsonObj(Sent(choice) \o extra) :
            choice \in {c \in [1 .. Len(fields) -> MemberChoices] :
                           \A k \in 1 .. Len(fields) : c[k] \in FieldChoices(fields[k])},
            extra \in {<< >>, << <<Chars("scope"), JsonStr(<<97>>)>> >>} }

CredentialsInit ==
    /\ kv = EmptyStore.kv
    /\ ttl = EmptyStore.ttl
    /\ issued = 0
    /\ serial = TRUE
    /\ Started
    /\ pc = [i \in Procs |-> IF i = 1 THEN "validate" ELSE "idle"]
    /\ \E p \in Providers : \E body \in TokenResponses(p) :
           req = [i \in Procs |->
                     IF i = 1 THEN [op |-> "credentials", provider |-> p, body |-> body,
                                    credentials |-> Failed, stored |-> << >>,
                                    returned |-> << >>, loaded |-> Failed]
                     ELSE Idle]

(* oauth_callback: model_validate(response.json()), then model_dump_json() *)
(* into the store; a validation error leaves the handler                   *)
StoreCredentials ==
    /\ pc[1] = "validate"
    /\ LET credentials == model_validate(CredentialsModel(req[1].provider), req[1].body)
       IN /\ pc' = [pc EXCEPT ![1] = IF credentials.ok THEN "stored" ELSE "raised"]
          /\ req' = [req EXCEPT ![1].credentials = credentials,
                                ![1].stored = IF credentials.ok
                                              THEN model_dump_json_of(credentials.value)
                                              ELSE << >>]
    /\ UNCHANGED <<kv, ttl, issued, serial, registry>>

(* get_credentials: model_validate_json of what is stored; the instance   *)
(* returned goes to the client as the JSON text of its members             *)
ReturnCredentials ==
    /\ pc[1] = "stored"
    /\ LET credentials_data ==
               model_validate_json_of(CredentialsModel(req[1].provider), req[1].stored)
       IN /\ pc' = [pc EXCEPT ![1] = IF credentials_data.ok THEN "returned" ELSE "raised"]
          /\ req' = [req EXCEPT ![1].returned = IF credentials_data.ok
                                                THEN json_text(JsonObj(credentials_data.value))
                                                ELSE << >>]
    /\ UNCHANGED <<kv, ttl, issued, serial, registry>>

(* list_items: model_validate_json of the string the client posts *)
LoadCredentials ==
    /\ pc[1] = "returned"
    /\ pc' = [pc EXCEPT ![1] = "loaded"]
    /\ req' = [req EXCEPT ![1].loaded =
                   model_validate_json_of(CredentialsModel(req[1].provider), req[1].returned)]
    /\ UNCHANGED <<kv, ttl, issued, serial, registry>>

CredentialsNext == StoreCredentials \/ ReturnCredentials \/ LoadCredentials

CredentialsSpec == CredentialsInit /\ [][CredentialsNext]_vars

-----------------------------------------------------------------------------
(* The load route of HubSpot: adapters/hubspot.py, list_items and          *)
(* _fetch_hubspot_objects.  The provider's answers to the GETs for one     *)
(* object type are a script, the responses in the order they are given;    *)
(* `after` is the paging.next.after of the body, "" when the body has none. *)

HUBSPOT_OBJECT_CONFIGS == <<"contacts", "companies", "deals">>

Response(status_code, results, after) ==
    [status_code |-> status_code, results |-> results, after |-> after]

AccessTokenExpired == HTTPException(401, "Access token expired")

HubspotItemsFailed == HTTPException(500, "Failed to retrieve HubSpot items")

(* The while loop of _fetch_hubspot_objects, about to send GET number k *)
RECURSIVE fetch_hubspot_pages(_, _, _)
fetch_hubspot_pages(script, k, aggregated_response) ==
    IF script[k].status_code # 200
    THEN [raised |-> NoResult, aggregated_response |-> aggregated_response, gets |-> k]
    ELSE IF script[k].after # ""
    THEN fetch_hubspot_pages(script, k + 1, aggregated_response \o script[k].results)
    ELSE [raised |-> NoResult, aggregated_response |-> aggregated_response \o script[k].results,
          gets |-> k]

(* _fetch_hubspot_objects: the first GET, then the loop while the body     *)
(* names a next page; a first answer of 401 raises, any other status but   *)
(* 200 is logged; what is raised is logged and raised again.               *)
fetch_hubspot_objects(script) ==
    IF script[1].status_code = 200
    THEN IF script[1].after # ""
         THEN fetch_hubspot_pages(script, 2, script[1].results)
         ELSE [raised |-> NoResult, aggregated_response |-> script[1].results, gets |-> 1]
    ELSE IF script[1].status_code = 401
    THEN [raised |-> AccessTokenExpired, aggregated_response |-> << >>, gets |-> 1]
    ELSE [raised |-> NoResult, aggregated_response |-> << >>, gets |-> 1]

create_integration_item_metadata_object(response_json, item_type) ==
    [id |-> response_json, type |-> item_type]

(* list_items, its first line: the credentials the client posted *)
hubspot_list_items_begin(credentials) ==
    LET credentials_data == model_validate_json_of(HubSpotCredentials, credentials)
        r == [op |-> "list_items", provider |-> "hubspot", credentials |-> credentials,
              access_token |-> << >>, object_type |-> 1, items |-> << >>,
              caught |-> << >>, answered |-> << >>, result |-> NoResult]
    IN IF ~credentials_data.ok
       THEN [r EXCEPT !.object_type = 0, !.result = HubspotItemsFailed]
       ELSE [r EXCEPT !.access_token = credentials_data.value[1][2].chars]

(* list_items, one turn of its loop over the object types: what the fetch *)
(* raises is caught and the loop goes on with the next type                *)
hubspot_list_items_fetch(r, script) ==
    LET object_type == HUBSPOT_OBJECT_CONFIGS[r.object_type]
        fetched == fetch_hubspot_objects(script)
        list_of_responses == fetched.aggregated_response
        r1 == [r EXCEPT !.object_type = @ + 1,
                        !.caught = Append(@, fetched.raised),
                        !.answered = Append(@, SubSeq(script, 1, fetched.gets))]
    IN IF fetched.raised # NoResult THEN r1
       ELSE [r1 EXCEPT !.items = @ \o [j \in 1 .. Len(list_of_responses) |->
                          create_integration_item_metadata_object(list_of_responses[j],
                                                                  object_type)]]

(* list_items, past the loop *)
hubspot_list_items_return(r) == [r EXCEPT !.object_type = 0, !.result = Returned(r.items)]

(* The answers to a request that asks for the first page or the next *)
HubspotResponses ==
    {Response(200, results, after) : results \in {<< >>, <<"r1">>}, after \in {"", "a1"}}
        \cup {Response(401, << >>, ""), Response(500, << >>, "")}

EndsFetch(response) == response.status_code # 200 \/ response.after = ""

(* The scripts _fetch_hubspot_objects reads to their end *)
HubspotScripts ==
    {script \in UNION {[1 .. n -> HubspotResponses] : n \in 1 .. MaxPages} :
        /\ EndsFetch(script[Len(script)])
        /\ \A k \in 1 .. Len(script) - 1 : ~EndsFetch(script[k])}

(* What the client posts: the credentials as get_credentials returned them, *)
(* and credentials that lack the refresh_token                              *)
HubspotCredentialTexts ==
    {json_text(JsonObj(<< <<Chars("access_token"), JsonStr(<<97, 116>>)>>,
                          <<Chars("refresh_token"), JsonStr(<<114, 116>>)>> >>)),
     json_text(JsonObj(<< <<Chars("access_token"), JsonStr(<<97, 116>>)>> >>))}

HubspotItemsInit ==
    /\ kv = EmptyStore.kv
    /\ ttl = EmptyStore.ttl
    /\ issued = 0
    /\ serial = TRUE
    /\ Started
    /\ pc = [i \in Procs |-> "idle"]
    /\ req = [i \in Procs |-> Idle]

HubspotListItems ==
    /\ pc[1] = "idle"
    /\ \E credentials \in HubspotCredentialTexts :
           LET r == hubspot_list_items_begin(credentials)
           IN /\ req' = [req EXCEPT ![1] = r]
              /\ pc' = [pc EXCEPT ![1] = IF r.result = NoResult THEN "fetch" ELSE "done"]
    /\ UNCHANGED <<kv, ttl, issued, serial, registry>>

HubspotFetchObjects ==
    /\ pc[1] = "fetch"
    /\ req[1].object_type \in 1 .. Len(HUBSPOT_OBJECT_CONFIGS)
    /\ \E script \in HubspotScripts :
           req' = [req EXCEPT ![1] = hubspot_list_items_fetch(req[1], script)]
    /\ UNCHANGED <<kv, ttl, pc, issued, serial, registry>>

HubspotReturnItems ==
    /\ pc[1] = "fetch"
    /\ req[1].object_type > Len(HUBSPOT_OBJECT_CONFIGS)
    /\ req' = [req EXCEPT ![1] = hubspot_list_items_return(req[1])]
    /\ pc' = [pc EXCEPT ![1] = "done"]
    /\ UNCHANGED <<kv, ttl, issued, serial, registry>>

HubspotItemsNext == HubspotListItems \/ HubspotFetchObjects \/ HubspotReturnItems

HubspotItemsSpec == HubspotItemsInit /\ [][HubspotItemsNext]_vars

-----------------------------------------------------------------------------
(* The legacy Notion flow: integrations/notion.py, authorize_notion and    *)
(* oauth2callback_notion over the functions of redis_client.  The callback *)
(* hands the token-exchange POST and the delete of the state key to        *)
(* asyncio.gather: the two run as tasks of their own, and the order in     *)
(* which the POST leaves, the DEL is applied and the answer arrives is     *)
(* theirs, the answer coming after the POST.                               *)

add_key_value_redis(S, key, value, expire) == redis_expire(redis_set(S, key, value), key, expire)

get_value_redis(S, key) == redis_get(S, key)

delete_key_redis(S, key) == redis_delete(S, key)

StateDoesNotMatch == HTTPException(400, "State does not match.")

authorize_notion(S, n, user_id, org_id) ==
    LET state_data == OAuthState(StateToken(n), user_id, org_id)
        r == [op |-> "authorize_notion", provider |-> "notion", user_id |-> user_id,
              org_id |-> org_id, state_data |-> state_data]
    IN Finish(r,
              add_key_value_redis(S, StateKey("notion", org_id, user_id),
                                  model_dump_json(state_data), state_expiry_seconds),
              Returned(EncodeState(state_data)))

(* oauth2callback_notion up to the gather: the error of the provider, the *)
(* decoding of the state, which nothing catches, and the stored state      *)
oauth2callback_notion_begin(S, params) ==
    LET r == [op |-> "oauth2callback_notion", provider |-> "notion", params |-> params,
              received |-> NoState, post |-> "none", deleted |-> FALSE,
              status_code |-> 0, access_token |-> ""]
    IN IF ~Falsy(params, "error")
       THEN Finish(r, S, HTTPException(400, IF "error_description" \in DOMAIN params
                                            THEN params["error_description"] ELSE "Bad Request"))
       ELSE IF StateFalsy(params) \/ ~CanDecodeState(params["state"])
       THEN Finish(r, S, InternalServerError)
       ELSE LET state_data == model_validate_json(urlsafe_b64decode(params["state"]))
                key == StateKey("notion", state_data.org_id, state_data.user_id)
                r1 == [r EXCEPT !.received = state_data]
            IN IF ~Present(S, key)
                  \/ state_data.state # model_validate_json(get_value_redis(S, key)).state
               THEN Finish(r1, S, StateDoesNotMatch)
               ELSE Goto("gather", r1, S)

(* The task of client.post sends the request *)
gather_post(c) == Goto("gather", [c.req EXCEPT !.post = "in_flight"], c.store)

(* The task of delete_key_redis: the DEL *)
gather_delete(c) ==
    Goto("gather", [c.req EXCEPT !.deleted = TRUE],
         delete_key_redis(c.store, StateKey("notion", c.req.received.org_id,
                                            c.req.received.user_id)))

(* The answer to the POST arrives *)
gather_answer(c, answer) ==
    Goto("gather", [c.req EXCEPT !.post = "answered", !.status_code = answer.status_code,
                                 !.access_token = answer.access_token],
         c.store)

(* Past the gather: the body is validated whatever the status, a body     *)
(* without access_token raising an error nothing catches, and the          *)
(* credentials are stored                                                  *)
oauth2callback_notion_store(c) ==
    LET r == c.req
    IN IF r.access_token = ""
       THEN Finish(r, c.store, InternalServerError)
       ELSE Finish(r,
                   add_key_value_redis(c.store,
                                       CredentialsKey("notion", r.received.org_id,
                                                      r.received.user_id),
                                       CredentialsJson(r.access_token),
                                       credentials_expiry_seconds),
                   oauth_close_window)

AuthorizeNotion(i, user_id, org_id) ==
    /\ CanStart(i)
    /\ issued < MaxAuthorize
    /\ issued' = issued + 1
    /\ Apply(i, authorize_notion(Store, issued + 1, user_id, org_id))

OAuth2CallbackNotion(i, params) ==
    /\ CanStart(i)
    /\ Presentable(params)
    /\ Apply(i, oauth2callback_notion_begin(Store, params))
    /\ UNCHANGED issued

GatherPost(i) ==
    /\ pc[i] = "gather"
    /\ req[i].post = "none"
    /\ Apply(i, gather_post(Config(i)))
    /\ UNCHANGED issued

GatherDelete(i) ==
    /\ pc[i] = "gather"
    /\ ~req[i].deleted
    /\ Apply(i, gather_delete(Config(i)))
    /\ UNCHANGED issued

GatherAnswer(i, status_code, access_token) ==
    /\ pc[i] = "gather"
    /\ req[i].post = "in_flight"
    /\ Apply(i, gather_answer(Config(i), Answer(status_code,
                                                IF status_code = 200 THEN access_token ELSE "")))
    /\ UNCHANGED issued

StoreNotionCredentials(i) ==
    /\ pc[i] = "gather"
    /\ req[i].post = "answered"
    /\ req[i].deleted
    /\ Apply(i, oauth2callback_notion_store(Config(i)))
    /\ UNCHANGED issued

LegacyNotionNext ==
    \/ \E i \in Procs, a \in Accounts : AuthorizeNotion(i, a[1], a[2])
    \/ \E i \in Procs, params \in ParamSets : OAuth2CallbackNotion(i, params)
    \/ \E i \in Procs : GatherPost(i)
    \/ \E i \in Procs : GatherDelete(i)
    \/ \E i \in Procs, st \in Statuses, at \in AccessTokens : GatherAnswer(i, st, at)
    \/ \E i \in Procs : StoreNotionCredentials(i)
    \/ \E key \in ttl : Expire(key)

LegacyNotionSpec == SerialInit /\ [][LegacyNotionNext]_vars

-----------------------------------------------------------------------------
(* The paging of Airtable: adapters/airtable.py, _fetch_items.  A page is  *)
(* the provider's answer to one GET: its status, the `bases` of its body   *)
(* and the `offset` of its body, "" when the body has none or an empty     *)
(* one; next_offset is "" while it is None.  The provider answers the GETs *)
(* of one call from a script, page after page.                             *)

Page(status_code, bases, offset) ==
    [status_code |-> status_code, bases |-> bases, offset |-> offset]

(* list_items calls _fetch_items(access_token, url, list_of_responses) *)
fetch_items_begin(script) ==
    [op |-> "fetch_items", provider |-> "airtable", script |-> script, next_offset |-> "",
     aggregated_response |-> << >>, sent |-> << >>, fetched |-> << >>]

(* Mutant: a status other than 200 is logged and the GET is sent again *)
fetch_items_get_again(c, page) ==
    LET r == [c.req EXCEPT !.sent = Append(@, c.req.next_offset), !.fetched = Append(@, page)]
    IN IF page.status_code # 200
       THEN Goto("fetch_items", r, c.store)
       ELSE LET r1 == [r EXCEPT !.aggregated_response = @ \o page.bases,
                                !.next_offset = page.offset]
            IN IF page.offset = "" THEN Goto("fetched", r1, c.store)
               ELSE Goto("fetch_items", r1, c.store)

(* One turn of the while True: the GET with the offset of the page before, *)
(* break on a status other than 200, else append the bases and break when  *)
(* the body names no next page                                             *)
fetch_items_get(c, page) ==
    LET r == [c.req EXCEPT !.sent = Append(@, c.req.next_offset), !.fetched = Append(@, page)]
    IN IF page.status_code # 200
       THEN Goto("fetched", r, c.store)
       ELSE LET r1 == [r EXCEPT !.aggregated_response = @ \o page.bases,
                                !.next_offset = page.offset]
            IN IF page.offset = "" THEN Goto("fetched", r1, c.store)
               ELSE Goto("fetch_items", r1, c.store)

(* The pages a provider can answer with; a refusal may carry a body too *)
AirtablePages ==
    {Page(200, bases, offset) : bases \in {<< >>, <<"b1">>, <<"b2", "b3">>},
                                offset \in {"", "o1"}}
        \cup {Page(500, << >>, ""), Page(401, <<"b9">>, "o1")}

AirtableScripts == UNION {[1 .. n -> AirtablePages] : n \in 1 .. MaxPages}

FetchItems(script) ==
    /\ pc[1] = "idle"
    /\ pc' = [pc EXCEPT ![1] = "fetch_items"]
    /\ req' = [req EXCEPT ![1] = fetch_items_begin(script)]
    /\ UNCHANGED <<kv, ttl, issued, serial, registry>>

(* The provider answers the next GET with the next page of its script *)
FetchItemsGet ==
    /\ pc[1] = "fetch_items"
    /\ Len(req[1].fetched) < Len(req[1].script)
    /\ Apply(1, fetch_items_get(Config(1), req[1].script[Len(req[1].fetched) + 1]))
    /\ UNCHANGED issued

AirtableItemsNext == (\E script \in AirtableScripts : FetchItems(script)) \/ FetchItemsGet

(* The coroutine is resumed whenever the answer to its GET is there *)
AirtableItemsSpec == SerialInit /\ [][AirtableItemsNext]_vars /\ WF_vars(FetchItemsGet)

-----------------------------------------------------------------------------
(* Vocabulary of the properties *)

Tuples == Providers \X Users \X Orgs

StateParam(code, encoded_state) == [code |-> code, state |-> encoded_state]

IssuedTokens == {StateToken(n) : n \in 1 .. issued}

(* Slot i runs a callback whose state passed validation *)
Validated(i) == pc[i] \in {"cb_delete_state", "cb_get_verifier", "cb_delete_verifier",
                           "token_exchange", "cred_expire"}

(* Slot i runs an oauth_callback whose strategy callback has returned success *)
Verified(i) == pc[i] \in {"token_exchange", "cred_expire"} /\ req[i].verified

-----------------------------------------------------------------------------
\* C1: for every provider, authorize followed at once by a callback with the
\* state it returned and a non-empty code succeeds and leaves the state key
\* absent, and a second callback with the same state fails with StateExpired.
C1_AuthorizeCallbackOnce ==
    \A t \in Tuples, code \in Codes :
        LET p == t[1]
            a == authorize(Store, issued + 1, p, t[2], t[3])
            params == StateParam(code, a.result.value.encoded_state)
            c1 == callback(a.store, p, params)
            c2 == callback(c1.store, p, params)
        IN /\ a.result.ok
           /\ CallbackSucceeded(c1)
           /\ CallbackResult(c1.req).user_id = t[2]
           /\ CallbackResult(c1.req).org_id = t[3]
           /\ ~Present(c1.store, StateKey(p, t[3], t[2]))
           /\ c2.pc = "done" /\ c2.result = StateExpired

\* C1 witness: a callback has verified a state that authorize issued, the state
\* key is gone, and the same callback sent again fails with StateExpired.
C1_Witness ==
    \E i \in Procs :
        /\ Verified(i)
        /\ req[i].received.state \in IssuedTokens
        /\ ~Present(Store, StateKey(req[i].provider, req[i].received.org_id, req[i].received.user_id))
        /\ callback(Store, req[i].provider, req[i].params).result = StateExpired

-----------------------------------------------------------------------------
\* C2: a callback returns success only if the token it presented equals the
\* token stored under the state key of the provider and of the (org_id,
\* user_id) its state carries, a token authorize issued for that tuple, and
\* the user_id and org_id it returns are those of the stored record.
C2_AntiCSRF ==
    \A i \in Procs :
        Verified(i) =>
            /\ req[i].saved.state = req[i].received.state
            /\ req[i].saved.state \in IssuedTokens
            /\ CallbackResult(req[i]).user_id = req[i].saved.user_id
            /\ CallbackResult(req[i]).org_id = req[i].saved.org_id

\* C3: of two callbacks that carry the same issued state and overlap, at most
\* one passes the state validation and returns success.
C3_StateSingleUse ==
    \A i, j \in Procs :
        (i # j /\ Verified(i) /\ Verified(j) /\ req[i].provider = req[j].provider)
            => req[i].params["state"] # req[j].params["state"]

\* C4: for every adapter, the first get_credentials after a successful
\* oauth_callback returns the credentials the callback stored and deletes the
\* credentials key, and a second one fails with CredentialsNotFound.
C4_CredentialsSingleRead ==
    \A p \in Providers, params \in DecodableParams, access_token \in AccessTokens :
        LET oc == oauth_callback(Store, p, params, Answer(200, access_token))
            user_id == oc.req.received.user_id
            org_id == oc.req.received.org_id
            g1 == get_credentials(oc.store, p, user_id, org_id)
            g2 == get_credentials(g1.store, p, user_id, org_id)
        IN oc.result = oauth_close_window =>
               /\ g1.result = Returned(CredentialsJson(access_token))
               /\ ~Present(g1.store, CredentialsKey(p, org_id, user_id))
               /\ g2.result = CredentialsNotFound

C4_Witness ==
    \E i \in Procs :
        /\ pc[i] = "gc_delete"
        /\ req[i].credentials \in {CredentialsJson(t) : t \in AccessTokens}
        /\ LET g1 == gc_delete(Config(i))
           IN /\ g1.result = Returned(req[i].credentials)
              /\ get_credentials(g1.store, req[i].provider, req[i].user_id,
                                 req[i].org_id).result = CredentialsNotFound

\* C5: of two get_credentials calls for the same (provider, org, user) that
\* overlap, at most one is handed the stored credentials.
C5_CredentialsHandedOnce ==
    \A i, j \in Procs :
        (i # j /\ pc[i] = "gc_delete" /\ pc[j] = "gc_delete")
            => CredentialsKey(req[i].provider, req[i].org_id, req[i].user_id)
                   # CredentialsKey(req[j].provider, req[j].org_id, req[j].user_id)

\* C6: the code_verifier a successful PKCE callback returns is the one drawn
\* by the authorize call that issued the presented state: its SHA-256 digest
\* is the code_challenge that call returned.
C6_VerifierOfIssuingCall ==
    \A i \in Procs :
        (Verified(i) /\ UsesPKCE(req[i].provider)) =>
            \E n \in 1 .. issued :
                /\ req[i].received.state = StateToken(n)
                /\ CodeChallenge(CallbackResult(req[i]).code_verifier)
                       = CodeChallenge(CodeVerifier(n))

\* C7: when two PKCE authorize calls for the same (provider, org, user) have
\* overlapped and both have made their writes, the stored state and the stored
\* verifier are those of one and the same call.
C7_StateAndVerifierOfOneCall ==
    \A i \in Procs :
        LET r == req[i]
            key == StateKey(r.provider, r.org_id, r.user_id)
            verifier_key == VerifierKey(r.provider, r.org_id, r.user_id)
        IN ( /\ pc[i] = "auth_expire_verifier"
             /\ \A j \in Procs : Authorizing(j) => pc[j] = "auth_expire_verifier"
             /\ Present(Store, key) /\ Present(Store, verifier_key)
             /\ model_validate_json(redis_get(Store, key)).user_id = r.user_id
             /\ model_validate_json(redis_get(Store, key)).org_id = r.org_id )
           => \E n \in 1 .. issued :
                  /\ model_validate_json(redis_get(Store, key)).state = StateToken(n)
                  /\ redis_get(Store, verifier_key) = CodeVerifier(n)

\* C8: after two authorize calls in sequence for the same (provider, org,
\* user) the store holds only the second call's state: a callback with the
\* first call's state fails with StateMismatch, one with the second's succeeds.
C8_SecondAuthorizeWins ==
    \A t \in Tuples, code \in Codes :
        LET p == t[1]
            a1 == authorize(Store, issued + 1, p, t[2], t[3])
            a2 == authorize(a1.store, issued + 2, p, t[2], t[3])
            key == StateKey(p, t[3], t[2])
            c1 == callback(a2.store, p, StateParam(code, a1.result.value.encoded_state))
            c2 == callback(a2.store, p, StateParam(code, a2.result.value.encoded_state))
        IN /\ redis_get(a2.store, key) = model_dump_json(a2.result.value.state_data)
           /\ redis_get(a2.store, key) # model_dump_json(a1.result.value.state_data)
           /\ c1.pc = "done" /\ c1.result = StateMismatch
           /\ CallbackSucceeded(c2)

C8_Witness ==
    \E t \in Tuples, code \in Codes :
        LET p == t[1]
            first == OAuthState(StateToken(1), t[2], t[3])
            second == OAuthState(StateToken(2), t[2], t[3])
        IN /\ issued = 2 /\ Quiescent
           /\ Present(Store, StateKey(p, t[3], t[2]))
           /\ redis_get(Store, StateKey(p, t[3], t[2])) = model_dump_json(second)
           /\ callback(Store, p, StateParam(code, EncodeState(first))).result = StateMismatch
           /\ CallbackSucceeded(callback(Store, p, StateParam(code, EncodeState(second))))

\* C9: a callback whose state decodes but carries a token other than the stored
\* one fails with StateMismatch and leaves the store as it was, so that the
\* legitimate callback still succeeds afterwards.
C9_MismatchKeepsStore ==
    /\ \A p \in Providers, params \in DecodableParams :
           LET c == callback(Store, p, params)
           IN c.result = StateMismatch => (c.pc = "done" /\ c.store = Store)
    /\ \A t \in Tuples, code \in Codes, forged \in TokensKnown \ {StateToken(issued + 1)} :
           LET p == t[1]
               a == authorize(Store, issued + 1, p, t[2], t[3])
               wrong == EncodeState(OAuthState(forged, t[2], t[3]))
               m == callback(a.store, p, StateParam(code, wrong))
               l == callback(m.store, p, StateParam(code, a.result.value.encoded_state))
           IN /\ m.pc = "done" /\ m.result = StateMismatch
              /\ m.store = a.store
              /\ CallbackSucceeded(l)

C9_Witness ==
    \E t \in Tuples, code \in Codes :
        LET p == t[1]
            key == StateKey(p, t[3], t[2])
            wrong == EncodeState(OAuthState(ForgedToken, t[2], t[3]))
            m == callback(Store, p, StateParam(code, wrong))
        IN /\ Quiescent /\ Present(Store, key)
           /\ model_validate_json(redis_get(Store, key)).state \in IssuedTokens
           /\ m.result = StateMismatch /\ m.store = Store
           /\ CallbackSucceeded(callback(m.store, p,
                  StateParam(code, urlsafe_b64encode(redis_get(Store, key)))))

\* C10: a callback with a non-empty error parameter fails with
\* AuthorizationDenied and writes and deletes nothing in the store, whatever
\* code and state it carries.
C10_DeniedTouchesNothing ==
    \A p \in Providers, params \in ParamSets, answer \in {Answer(200, "at1"), Answer(400, "")} :
        ~Falsy(params, "error") =>
            LET c == callback(Store, p, params)
                oc == oauth_callback(Store, p, params, answer)
            IN /\ c.pc = "done" /\ c.result = AuthorizationDenied(params)
               /\ c.store = Store
               /\ oc.result = AuthorizationDenied(params)
               /\ oc.store = Store

C10_Witness ==
    \E p \in Providers, params \in DeniedParams :
        /\ Quiescent
        /\ ~Falsy(params, "code") /\ ~StateFalsy(params) /\ CanDecodeState(params["state"])
        /\ LET received == model_validate_json(urlsafe_b64decode(params["state"]))
               key == StateKey(p, received.org_id, received.user_id)
           IN /\ Present(Store, key)
              /\ model_validate_json(redis_get(Store, key)) = received
        /\ oauth_callback(Store, p, params, Answer(200, "at1")).result
               = AuthorizationDenied(params)
        /\ oauth_callback(Store, p, params, Answer(200, "at1")).store = Store

(* The credentials keys and what the store S holds under them *)
CredentialsKeys == {CredentialsKey(t[1], t[3], t[2]) : t \in Tuples}

CredentialsIn(S) ==
    [key \in CredentialsKeys \cap DOMAIN S.kv |-> <<S.kv[key], key \in S.ttl>>]

\* C11: for every adapter, an oauth_callback whose token exchange is answered
\* with a non-2xx status fails with TokenExchangeFailed, and no credentials
\* key is created or modified by it.
C11_FailedExchangeWritesNothing ==
    /\ \A p \in Providers, params \in DecodableParams, status_code \in Non2xx,
          access_token \in AccessTokens :
           LET oc == oauth_callback(Store, p, params, Answer(status_code, access_token))
           IN CallbackSucceeded(callback(Store, p, params)) =>
                  /\ oc.result = TokenExchangeFailed(p)
                  /\ CredentialsIn(oc.store) = CredentialsIn(Store)
    /\ \A i \in Procs, status_code \in Non2xx, access_token \in AccessTokens :
           pc[i] = "token_exchange" =>
               LET c == token_exchange(Config(i), Answer(status_code, access_token))
               IN /\ c.pc = "done" /\ c.result = TokenExchangeFailed(req[i].provider)
                  /\ CredentialsIn(c.store) = CredentialsIn(Store)

C11_Witness ==
    \E i \in Procs :
        /\ Verified(i) /\ pc[i] = "token_exchange"
        /\ token_exchange(Config(i), Answer(500, "at1")).result
               = TokenExchangeFailed(req[i].provider)
        /\ CredentialsIn(Store) # << >>

(* Slot i runs a callback that has issued the delete of its state *)
PastStateDelete(i) == pc[i] \in {"cb_get_verifier", "cb_delete_verifier", "token_exchange",
                                 "cred_expire"}

\* C12: within one oauth_callback the stored state is read and deleted, then
\* (PKCE) the verifier is read and deleted, and only then the token exchange
\* is attempted: the verifier is never read, and the exchange never issued,
\* while the store still holds the state that callback validated, nor is the
\* exchange issued while it still holds the verifier that callback read.
C12_DeleteBeforeExchange ==
    \A i \in Procs :
        LET r == req[i]
            key == StateKey(r.provider, r.received.org_id, r.received.user_id)
            verifier_key == VerifierKey(r.provider, r.received.org_id, r.received.user_id)
        IN /\ PastStateDelete(i) =>
                  ~(Present(Store, key) /\ redis_get(Store, key) = model_dump_json(r.saved))
           /\ pc[i] \in {"token_exchange", "cred_expire"} =>
                  /\ r.verified
                  /\ UsesPKCE(r.provider) =>
                         /\ r.code_verifier # ""
                         /\ ~(Present(Store, verifier_key)
                              /\ redis_get(Store, verifier_key) = r.code_verifier)

C12_Witness ==
    \E i \in Procs :
        /\ pc[i] = "token_exchange" /\ UsesPKCE(req[i].provider)
        /\ req[i].code_verifier \in {CodeVerifier(n) : n \in 1 .. issued}
        /\ ~Present(Store, StateKey(req[i].provider, req[i].received.org_id,
                                    req[i].received.user_id))
        /\ ~Present(Store, VerifierKey(req[i].provider, req[i].received.org_id,
                                       req[i].received.user_id))

\* C13: a credentials key of (provider, org, user) comes to be present, or to
\* hold a new value, only by the successful token exchange of an
\* oauth_callback of that provider that validated a state for that (org,
\* user), and the value stored is the credentials that exchange returned.
C13_CredentialsProvenance ==
    [][\A t \in Tuples :
           LET key == CredentialsKey(t[1], t[3], t[2])
           IN (key \in DOMAIN kv' /\ (key \notin DOMAIN kv \/ kv'[key] # kv[key])) =>
                  \E i \in Procs :
                      /\ pc[i] = "token_exchange" /\ Verified(i)
                      /\ pc'[i] = "cred_expire"
                      /\ req[i].provider = t[1]
                      /\ req[i].received.user_id = t[2]
                      /\ req[i].received.org_id = t[3]
                      /\ kv'[key] = CredentialsJson(req'[i].access_token)]_vars

\* C14: after a successful PKCE callback the state key and the verifier key
\* of its (provider, org, user) are both absent, and no later callback obtains
\* the verifier it returned.
C14_VerifierSingleUse ==
    \A p \in {q \in Providers : UsesPKCE(q)}, params \in DecodableParams :
        LET c == callback(Store, p, params)
            user_id == c.req.received.user_id
            org_id == c.req.received.org_id
        IN CallbackSucceeded(c) =>
               /\ CallbackResult(c.req).code_verifier # ""
               /\ ~Present(c.store, StateKey(p, org_id, user_id))
               /\ ~Present(c.store, VerifierKey(p, org_id, user_id))
               /\ ~CallbackSucceeded(callback(c.store, p, params))
               /\ \A later \in DecodableParams :
                      callback(c.store, p, later).req.code_verifier # c.req.code_verifier

C14_Witness ==
    \E i \in Procs :
        /\ Verified(i) /\ UsesPKCE(req[i].provider)
        /\ req[i].code_verifier \in {CodeVerifier(n) : n \in 1 .. issued}
        /\ ~Present(Store, StateKey(req[i].provider, req[i].received.org_id,
                                    req[i].received.user_id))
        /\ ~Present(Store, VerifierKey(req[i].provider, req[i].received.org_id,
                                       req[i].received.user_id))
        /\ callback(Store, req[i].provider, req[i].params).req.code_verifier = ""

\* C15: get_adapter(name) fails with the KeyError of an unknown provider when
\* no adapter is registered under that name, and after register_adapter(X, a1)
\* followed by register_adapter(X, a2) every get_adapter(X) returns a2.
C15_RegistryLookup ==
    /\ \A name \in Names :
           IF \E registered \in DOMAIN registry : registered = Lower(name)
           THEN get_adapter(registry, name) = Returned(registry[Lower(name)])
           ELSE get_adapter(registry, name) = KeyError(name)
    /\ \A name \in Names, a1 \in Adapters, a2 \in Adapters :
           LET twice == register_adapter(register_adapter(registry, name, a1), name, a2)
           IN /\ get_adapter(twice, name) = Returned(a2)
              /\ \A other \in Names :
                     Lower(other) # Lower(name) =>
                         get_adapter(twice, other) = get_adapter(registry, other)

C15_Witness ==
    /\ get_adapter(registry, "unknown") = KeyError("unknown")
    /\ "hubspot" \notin list_adapters(registry)
    /\ ~get_adapter(registry, "hubspot").ok
    /\ get_adapter(registry, "X") = Returned(AdapterInstance("NotionAdapter", "notion", 2))
    /\ get_adapter(registry, "Airtable") = Returned(AirtableAdapter)

(* A route answered 404 for `name` without an adapter call or a store access *)
Answered404(c, name) ==
    /\ c.pc = "done"
    /\ c.result = HTTPException(404, "Provider '" \o name \o "' not found")
    /\ c.req = NoCall
    /\ c.store = Store

\* C16: on each of the four routes a request that names a provider that is
\* not registered is answered with HTTP 404 whose detail names that provider,
\* and calls no adapter and accesses no store key.
C16_UnknownProvider404 ==
    \A name \in Names :
        Lower(name) \notin list_adapters(registry) =>
            /\ \A user_id \in Users, org_id \in Orgs :
                   /\ Answered404(authorize_integration(registry, Store, issued + 1, name,
                                                        user_id, org_id), name)
                   /\ Answered404(get_credentials_integration(registry, Store, name,
                                                              user_id, org_id), name)
            /\ \A params \in DecodableParams, access_token \in AccessTokens :
                   Answered404(oauth_callback_integration(registry, Store, name, params,
                                                          Answer(200, access_token)), name)
            /\ \A outcome \in ListItemsOutcomes :
                   Answered404(get_items_integration(registry, Store, name, "credentials",
                                                     outcome), name)

C16_Witness ==
    /\ Quiescent
    /\ \E key \in CredentialsKeys : Present(Store, key)
    /\ \E t \in Tuples : Present(Store, StateKey(t[1], t[3], t[2]))
    /\ "unknown" \notin list_adapters(registry)
    /\ Answered404(get_credentials_integration(registry, Store, "unknown", "u", "o"), "unknown")
    /\ get_adapter(registry, "Airtable").ok

\* C17: no request changes the registry: after any sequence of authorize,
\* oauth_callback, get_credentials and list_items requests, successful or
\* failing, the registry is the one the registrations of startup established.
C17_RequestsKeepRegistry ==
    /\ registry = register_adapters_with_dependencies(EmptyRegistry)
    /\ list_adapters(registry) = Providers
    /\ \A p \in Providers : Resolves(p, p)

C17_Witness ==
    /\ registry = register_adapters_with_dependencies(EmptyRegistry)
    /\ issued = MaxAuthorize
    /\ \E key \in CredentialsKeys : Present(Store, key)
    /\ \E i \in Procs : pc[i] = "gc_delete"
    /\ \E i \in Procs : pc[i] = "token_exchange"

\* C18: a token exchange that times out is treated like a non-2xx answer: the
\* oauth_callback fails with the same TokenExchangeFailed outcome and writes
\* no credentials key.
C18_TimeoutLikeNon2xx ==
    \A i \in Procs :
        (pc[i] = "token_exchange" /\ Verified(i)) =>
            LET timed_out == token_exchange(Config(i), TimedOut)
                refused == token_exchange(Config(i), Answer(400, ""))
            IN /\ timed_out.pc = "done"
               /\ timed_out.result = refused.result
               /\ timed_out.result = TokenExchangeFailed(req[i].provider)
               /\ CredentialsIn(timed_out.store) = CredentialsIn(Store)

(* The request ended in the framework's 500 and returned nothing *)
Surfaced(c) ==
    /\ c.pc = "done"
    /\ ~c.result.ok
    /\ c.result = InternalServerError
    /\ c.result.status_code >= 500

\* C19: if a store call (get, set or delete) fails during authorize, callback,
\* oauth_callback or get_credentials, the operation ends in a failure reported
\* to the caller and never returns a success: whichever of its store commands
\* raises, and whether or not the store applied it.
C19_StoreFailureSurfaces ==
    /\ \A i \in Procs, access_token \in AccessTokens, applied \in BOOLEAN :
           (pc[i] # "idle" /\ IssuesCommand(Config(i), Answer(200, access_token))) =>
               Surfaced(store_raises(Config(i), Answer(200, access_token), applied))
    /\ \A t \in Tuples, applied \in BOOLEAN :
           LET c == authorize_begin(Store, issued + 1, t[1], t[2], t[3])
               n == CommandsOf(c, TRUE, NoAnswer)
           IN /\ n = IF UsesPKCE(t[1]) THEN 4 ELSE 2
              /\ \A k \in 1 .. n : Surfaced(Raising(Store, c, TRUE, NoAnswer, k, applied))
    /\ \A p \in Providers, params \in DecodableParams, access_token \in AccessTokens,
          applied \in BOOLEAN :
           LET c == callback_begin(Store, p, params)
               answer == Answer(200, access_token)
               n == CommandsOf(c, CallbackReads(params), answer)
           IN /\ n >= 1
              /\ \A k \in 1 .. n :
                     Surfaced(Raising(Store, c, CallbackReads(params), answer, k, applied))
    /\ \A t \in Tuples, applied \in BOOLEAN :
           LET c == get_credentials_begin(Store, t[1], t[2], t[3])
               n == CommandsOf(c, TRUE, NoAnswer)
           IN \A k \in 1 .. n : Surfaced(Raising(Store, c, TRUE, NoAnswer, k, applied))

C19_Witness ==
    /\ Quiescent
    /\ \E key \in DOMAIN kv : key \notin ttl
    /\ \E t \in Tuples :
           LET c == get_credentials_begin(Store, t[1], t[2], t[3])
           IN /\ c.pc = "gc_delete"
              /\ CommandsOf(c, TRUE, NoAnswer) = 2
              /\ Surfaced(Raising(Store, c, TRUE, NoAnswer, 2, TRUE))
              /\ ~Present(Raising(Store, c, TRUE, NoAnswer, 2, TRUE).store,
                          CredentialsKey(t[1], t[3], t[2]))

(* A request stands between the SET of the key and the EXPIRE that follows it *)
WriteUnderWay(key) ==
    \E i \in Procs :
        \/ /\ pc[i] = "auth_expire_state"
           /\ key = StateKey(req[i].provider, req[i].org_id, req[i].user_id)
        \/ /\ pc[i] = "auth_expire_verifier"
           /\ key = VerifierKey(req[i].provider, req[i].org_id, req[i].user_id)
        \/ /\ pc[i] = "cred_expire"
           /\ key = CredentialsKey(req[i].provider, req[i].received.org_id,
                                   req[i].received.user_id)

\* C20: every state, verifier and credentials key the core writes carries a
\* time-to-live once the write that made it has returned, and so every key
\* is eventually absent from the store, consumed or not.
C20_KeysExpire ==
    /\ [](\A key \in DOMAIN kv : key \in ttl \/ WriteUnderWay(key))
    /\ \A key \in AllKeys : (key \in DOMAIN kv) ~> (key \notin DOMAIN kv)

C20_Witness ==
    /\ Quiescent
    /\ \E t \in Tuples :
           /\ UsesPKCE(t[1])
           /\ {StateKey(t[1], t[3], t[2]), VerifierKey(t[1], t[3], t[2])} \subseteq ttl
    /\ \E key \in CredentialsKeys : key \in ttl

-----------------------------------------------------------------------------
(* C21: round trip of the state parameter.  For every OAuthState whose    *)
(* three values are ASCII, decoding (base64url, then UTF-8, then JSON) the *)
(* string that authorize builds from it (JSON, then UTF-8, then base64url) *)
(* gives back the same three values.                                       *)

AsciiSafe(d) ==
    \A s \in {d.state, d.user_id, d.org_id} : \A k \in 1 .. Len(s) : s[k] < 128

C21_RoundTrip ==
    (pc[1] = "decoded" /\ AsciiSafe(req[1].state_data))
        => req[1].received = Returned(req[1].state_data)

C21_Witness ==
    /\ pc[1] = "decoded"
    /\ req[1].state_data = OAuthState(<<45, 95, 65>>, <<34, 92>>, <<10, 97>>)
    /\ req[1].received = Returned(req[1].state_data)

-----------------------------------------------------------------------------
(* C22: every authorize call returns an encoded state that decodes to the  *)
(* record it returns as state_data, whose user_id and org_id are the       *)
(* arguments and whose token no other call under way and no other key of   *)
(* the store holds; and when the call returns, the record stored under its *)
(* state key is that same record.                                          *)

(* The request in slot i is an authorize call that returns in this step *)
AuthorizeReturns(i) ==
    /\ req[i].op = "authorize"
    /\ pc[i] \in {"auth_expire_state", "auth_expire_verifier"}
    /\ pc'[i] = "idle"

FreshToken(i) ==
    /\ \E n \in 1 .. issued : req[i].state_data.state = StateToken(n)
    /\ req[i].state_data.state # ForgedToken
    /\ \A j \in Procs \ {i} :
           req[j].op = "authorize" => req[j].state_data.state # req[i].state_data.state

C22_AuthorizeReturnsStoredState ==
    [][\A i \in Procs :
          AuthorizeReturns(i) =>
              LET r == req[i]
                  key == StateKey(r.provider, r.org_id, r.user_id)
              IN /\ CanDecodeState(r.encoded_state)
                 /\ model_validate_json(urlsafe_b64decode(r.encoded_state)) = r.state_data
                 /\ r.state_data.user_id = r.user_id
                 /\ r.state_data.org_id = r.org_id
                 /\ FreshToken(i)
                 /\ key \in DOMAIN kv' => model_validate_json(kv'[key]) = r.state_data]_vars

-----------------------------------------------------------------------------
(* C23: registry names are case-insensitive.  Nothing is listed before the *)
(* first registration and every listed name is lower-cased; a registration *)
(* under `name` adds exactly the lower-cased name to the list, after it    *)
(* get_adapter(n) returns the adapter just registered for every n whose    *)
(* lower-cased form is that of `name`, whatever the case of n and of any   *)
(* earlier registration, and answers for every other n as before.          *)
C23_CaseInsensitiveRegistry ==
    /\ registry = EmptyRegistry => list_adapters(registry) = {}
    /\ \A listed \in list_adapters(registry) : listed \in Names /\ Lower(listed) = listed
    /\ \A name \in Names, adapter \in Adapters :
           LET after == register_adapter(registry, name, adapter)
           IN /\ list_adapters(after) = list_adapters(registry) \cup {Lower(name)}
              /\ \A n \in Names :
                     get_adapter(after, n) =
                         IF Lower(n) = Lower(name) THEN Returned(adapter)
                         ELSE get_adapter(registry, n)

C23_Witness ==
    /\ list_adapters(registry) = {"airtable", "x"}
    /\ get_adapter(registry, "Airtable") = Returned(AdapterInstance("NotionAdapter", "notion", 1))
    /\ get_adapter(registry, "airtable") = get_adapter(registry, "Airtable")
    /\ get_adapter(registry, "X") = get_adapter(registry, "x")
    /\ get_adapter(registry, "X") = Returned(HubspotAdapter)

-----------------------------------------------------------------------------
(* C24: for every provider, the credentials get_credentials returns, as   *)
(* the JSON string the client receives, are accepted by list_items of the *)
(* same provider, and what list_items parses from it is the instance that  *)
(* the successful token exchange stored.                                   *)
C24_ReturnedCredentialsLoad ==
    /\ pc[1] = "stored" =>
           /\ req[1].credentials.ok
           /\ model_validate_json_of(CredentialsModel(req[1].provider), req[1].stored)
                  = req[1].credentials
    /\ pc[1] = "loaded" =>
           /\ req[1].loaded.ok
           /\ req[1].loaded = req[1].credentials

C24_Witness ==
    /\ pc[1] = "loaded"
    /\ req[1].provider = "notion"
    /\ HasMember(req[1].body, Chars("scope"))
    /\ ~HasMember(req[1].body, Chars("bot_id"))
    /\ req[1].loaded = req[1].credentials
    /\ req[1].loaded.value[1][2] = JsonStr(<<97, 116, 34, 49>>)
    /\ req[1].loaded.value[3][2] = JsonNull
    /\ req[1].loaded.value[7][2].type = "object"

-----------------------------------------------------------------------------
(* C25: callback applies its checks in the order error, code, state       *)
(* presence, state decoding, stored-state lookup, token comparison, and    *)
(* fails with the error of the first one that fails; when one of the first *)
(* four fails the callback has read nothing from the store.                *)

(* The six checks on their own: whether each fails for these parameters   *)
(* over the store S, and its error.  A state that is absent cannot be      *)
(* decoded, one that cannot be decoded names no key, and a key that is     *)
(* absent holds no token to compare.                                       *)
CallbackChecks(S, p, params) ==
    LET undecodable == StateFalsy(params) \/ ~CanDecodeState(params["state"])
        received == model_validate_json(urlsafe_b64decode(params["state"]))
        key == StateKey(p, received.org_id, received.user_id)
        unknown == undecodable \/ ~Present(S, key)
        differs == unknown \/ model_validate_json(redis_get(S, key)).state # received.state
    IN <<[fails |-> ~Falsy(params, "error"), error |-> AuthorizationDenied(params)],
         [fails |-> Falsy(params, "code"), error |-> MissingAuthorizationCode],
         [fails |-> StateFalsy(params), error |-> MissingState],
         [fails |-> undecodable, error |-> InvalidState],
         [fails |-> unknown, error |-> StateExpired],
         [fails |-> differs, error |-> StateMismatch]>>

FirstFailing(checks) ==
    CHOOSE k \in 1 .. Len(checks) : checks[k].fails /\ \A j \in 1 .. k - 1 : ~checks[j].fails

(* A store that shares no key with the store of the server *)
OtherStore ==
    [kv |-> [key \in {"other"} |-> "value"], ttl |-> {"other"}]

C25_ChecksInOrder ==
    \A p \in Providers, params \in ParamSets :
        LET checks == CallbackChecks(Store, p, params)
            c == callback(Store, p, params)
        IN IF \E k \in 1 .. Len(checks) : checks[k].fails
           THEN LET first == FirstFailing(checks)
                IN /\ c.pc = "done"
                   /\ c.result = checks[first].error
                   /\ first <= 4 =>
                          /\ c.store = Store
                          /\ c.req.received = NoState
                          /\ c.req.saved = NoState
                          /\ callback(OtherStore, p, params).result = c.result
                          /\ callback(OtherStore, p, params).store = OtherStore
           ELSE c.result \notin {checks[k].error : k \in 1 .. Len(checks)}

C25_Witness ==
    /\ Quiescent
    /\ Present(Store, StateKey("hubspot", "o", "u"))
    /\ ~Present(Store, StateKey("notion", "o", "u"))
    /\ model_validate_json(redis_get(Store, StateKey("hubspot", "o", "u"))).state = StateToken(1)
    /\ callback(Store, "hubspot", Mapping({"error", "state"}, ParamValues("c1", NotBase64))).result
           = AuthorizationDenied(Mapping({"error", "state"}, ParamValues("c1", NotBase64)))
    /\ callback(Store, "hubspot", Mapping({"state"}, ParamValues("c1", NotBase64))).result
           = MissingAuthorizationCode
    /\ callback(Store, "hubspot", Mapping({"code"}, ParamValues("c1", NotBase64))).result
           = MissingState
    /\ callback(Store, "hubspot", Mapping({"code", "state"}, ParamValues("c1", NotBase64))).result
           = InvalidState
    /\ callback(Store, "notion",
                StateParam("c1", EncodeState(OAuthState(StateToken(1), "u", "o")))).result
           = StateExpired
    /\ callback(Store, "hubspot",
                StateParam("c1", EncodeState(OAuthState(ForgedToken, "u", "o")))).result
           = StateMismatch
    /\ CallbackSucceeded(callback(Store, "hubspot",
                StateParam("c1", EncodeState(OAuthState(StateToken(1), "u", "o")))))

-----------------------------------------------------------------------------
(* C26: a callback of the Standard strategy that fails leaves the store   *)
(* as it found it; a callback of the PKCE strategy that fails leaves the   *)
(* store as it found it unless it fails with VerifierExpired, and then the *)
(* state key it validated, and nothing else, has been deleted.             *)
C26_FailingCallbackFrame ==
    \A p \in Providers, params \in ParamSets :
        LET c == callback(Store, p, params)
            key == StateKey(p, c.req.received.org_id, c.req.received.user_id)
        IN c.pc = "done" =>
               IF UsesPKCE(p) /\ c.result = VerifierExpired
               THEN /\ Present(Store, key)
                    /\ c.store.kv = Drop(Store.kv, key)
                    /\ c.store.ttl = Store.ttl \ {key}
               ELSE /\ c.result # VerifierExpired
                    /\ c.store = Store

C26_Witness ==
    LET key == StateKey("airtable", "o", "u")
        saved == model_validate_json(redis_get(Store, key))
        c == callback(Store, "airtable", StateParam("c1", EncodeState(saved)))
        m == callback(Store, "hubspot",
                      StateParam("c1", EncodeState(OAuthState(ForgedToken, "u", "o"))))
    IN /\ Quiescent
       /\ Present(Store, key)
       /\ ~Present(Store, VerifierKey("airtable", "o", "u"))
       /\ c.pc = "done" /\ c.result = VerifierExpired
       /\ c.store = redis_delete(Store, key)
       /\ c.store # Store
       /\ Present(Store, StateKey("hubspot", "o", "u"))
       /\ m.pc = "done" /\ m.result = StateMismatch /\ m.store = Store

-----------------------------------------------------------------------------
(* C27: when the store holds no state issued for the (provider, org,      *)
(* user) that the presented state names, because its time-to-live has run  *)
(* out or because none was ever issued for them, the callback fails with   *)
(* StateExpired, hands no code to the exchange and leaves the store as it  *)
(* found it.                                                               *)

(* The store S holds a state that an authorize call for (p, org_id, user_id) wrote *)
StateIssuedFor(S, p, org_id, user_id) ==
    \E u \in Users, o \in Orgs :
        /\ Present(S, StateKey(p, o, u))
        /\ model_validate_json(redis_get(S, StateKey(p, o, u))).user_id = user_id
        /\ model_validate_json(redis_get(S, StateKey(p, o, u))).org_id = org_id

C27_AbsentStateExpires ==
    \A p \in Providers, params \in DecodableParams, answer \in {Answer(200, "at1")} :
        LET received == model_validate_json(urlsafe_b64decode(params["state"]))
            c == callback(Store, p, params)
            oc == oauth_callback(Store, p, params, answer)
        IN ~StateIssuedFor(Store, p, received.org_id, received.user_id) =>
               /\ c.pc = "done" /\ c.result = StateExpired
               /\ c.store = Store
               /\ oc.result = StateExpired /\ oc.store = Store

-----------------------------------------------------------------------------
(* C28: a PKCE callback whose state passes the six checks while the       *)
(* verifier key is absent fails with VerifierExpired and returns no        *)
(* code_verifier; a PKCE callback that returns success has read the        *)
(* verifier stored under the key and has deleted that key.                 *)
C28_VerifierRequired ==
    /\ \A p \in {q \in Providers : UsesPKCE(q)}, params \in ParamSets :
           LET checks == CallbackChecks(Store, p, params)
               received == model_validate_json(urlsafe_b64decode(params["state"]))
               key == VerifierKey(p, received.org_id, received.user_id)
               c == callback(Store, p, params)
           IN /\ ((\A k \in 1 .. Len(checks) : ~checks[k].fails) /\ ~Present(Store, key)) =>
                     /\ c.pc = "done" /\ c.result = VerifierExpired
                     /\ ~c.result.ok
                     /\ c.req.code_verifier = ""
              /\ CallbackSucceeded(c) =>
                     /\ Present(Store, key)
                     /\ CallbackResult(c.req).code_verifier = redis_get(Store, key)
                     /\ ~Present(c.store, key)
    /\ \A i \in Procs :
           (Verified(i) /\ UsesPKCE(req[i].provider)) =>
               \E n \in 1 .. issued : req[i].code_verifier = CodeVerifier(n)

C28_Witness ==
    LET skey == StateKey("airtable", "o", "u")
        vkey == VerifierKey("airtable", "o:x", "u")
        c == callback(Store, "airtable",
                      StateParam("c1", EncodeState(model_validate_json(redis_get(Store, skey)))))
        l == callback(Store, "airtable",
                      StateParam("c1", EncodeState(OAuthState(StateToken(2), "u", "o:x"))))
    IN /\ Quiescent
       /\ Present(Store, skey)
       /\ ~Present(Store, VerifierKey("airtable", "o", "u"))
       /\ c.pc = "done" /\ c.result = VerifierExpired
       /\ Present(Store, vkey)
       /\ CallbackSucceeded(l)
       /\ CallbackResult(l.req).code_verifier = CodeVerifier(2)
       /\ ~Present(l.store, vkey)

-----------------------------------------------------------------------------
(* C29: an oauth_callback sends at most one token-exchange POST, and sends *)
(* none unless the strategy's callback returned success; after a failed    *)
(* verification or a refused or timed-out exchange the request ends        *)
(* without another POST.                                                   *)
C29_OneExchangeNoRetry ==
    /\ \A i \in Procs :
           req[i].op = "oauth_callback" =>
               /\ req[i].posts <= 1
               /\ req[i].posts = 1 <=> Verified(i)
    /\ \A p \in Providers, params \in ParamSets,
          answer \in {Answer(200, "at1"), Answer(400, ""), Answer(500, ""), TimedOut} :
           LET c == callback(Store, p, params)
               oc == oauth_callback(Store, p, params, answer)
           IN /\ oc.pc = "done"
              /\ oc.req.posts = IF CallbackSucceeded(c) THEN 1 ELSE 0
              /\ ~CallbackSucceeded(c) => (oc.result = c.result /\ ~oc.result.ok)
              /\ (CallbackSucceeded(c) /\ (answer.timed_out \/ answer.status_code # 200)) =>
                     (~oc.result.ok /\ oc.req.posts = 1)

C29_Witness ==
    LET key == StateKey("notion", "o", "u")
        params == StateParam("c1", EncodeState(model_validate_json(redis_get(Store, key))))
        wrong == StateParam("c1", EncodeState(OAuthState(ForgedToken, "u", "o")))
    IN /\ Quiescent
       /\ Present(Store, key)
       /\ oauth_callback(Store, "notion", params, Answer(500, "")).result
              = TokenExchangeFailed("notion")
       /\ oauth_callback(Store, "notion", params, Answer(500, "")).req.posts = 1
       /\ oauth_callback(Store, "notion", params, Answer(200, "at1")).req.posts = 1
       /\ oauth_callback(Store, "notion", wrong, Answer(200, "at1")).result = StateMismatch
       /\ oauth_callback(Store, "notion", wrong, Answer(200, "at1")).req.posts = 0

-----------------------------------------------------------------------------
(* C30: an oauth_callback whose verification succeeded fails with         *)
(* TokenExchangeFailed exactly when the status of the answer is outside    *)
(* 200..299; on every status from 200 to 299 it returns success and the    *)
(* credentials of the answer are stored.                                   *)
C30_Every2xxAccepted ==
    \A p \in Providers, params \in DecodableParams, status_code \in Statuses,
       access_token \in AccessTokens :
        LET c == callback(Store, p, params)
            oc == oauth_callback(Store, p, params, Answer(status_code, access_token))
            key == CredentialsKey(p, c.req.received.org_id, c.req.received.user_id)
        IN CallbackSucceeded(c) =>
               /\ oc.result = TokenExchangeFailed(p) <=> ~Is2xx(status_code)
               /\ Is2xx(status_code) =>
                      /\ oc.result = oauth_close_window
                      /\ Present(oc.store, key)
                      /\ redis_get(oc.store, key) = CredentialsJson(access_token)

-----------------------------------------------------------------------------
(* C31: the three keys of a (provider, org_id, user_id) tuple belong to    *)
(* that tuple alone, ids that contain ':' included: an authorize, an       *)
(* oauth_callback or a get_credentials for another tuple leaves them as    *)
(* they are, and its outcome is the one it would have had with those keys  *)
(* absent from the store.                                                  *)

(* The keys of the tuple t *)
KeysOf(t) == {StateKey(t[1], t[3], t[2]), VerifierKey(t[1], t[3], t[2]),
              CredentialsKey(t[1], t[3], t[2])}

(* The store S without the keys in keys, and what S holds under them *)
Without(S, keys) ==
    [kv |-> [k \in DOMAIN S.kv \ keys |-> S.kv[k]], ttl |-> S.ttl \ keys]

Held(S, keys) ==
    [kv |-> [k \in DOMAIN S.kv \cap keys |-> S.kv[k]], ttl |-> S.ttl \cap keys]

(* The requests that can be made for a tuple, and the request r for the   *)
(* tuple t served alone on S                                               *)
Requests == {"authorize", "get_credentials"} \cup TokensKnown

Serve(S, t, r) ==
    CASE r = "authorize" -> authorize(S, issued + 1, t[1], t[2], t[3])
      [] r = "get_credentials" -> get_credentials(S, t[1], t[2], t[3])
      [] OTHER -> oauth_callback(S, t[1],
                                 StateParam("c1", EncodeState(OAuthState(r, t[2], t[3]))),
                                 Answer(200, "at1"))

C31_TupleIsolation ==
    \A t \in Tuples, other \in Tuples :
        t # other =>
            /\ KeysOf(t) \cap KeysOf(other) = {}
            /\ \A r \in Requests :
                   /\ Held(Serve(Store, other, r).store, KeysOf(t)) = Held(Store, KeysOf(t))
                   /\ Serve(Store, other, r).result
                          = Serve(Without(Store, KeysOf(t)), other, r).result

-----------------------------------------------------------------------------
(* C32: on the same parameters and the same store, the callback of the     *)
(* PKCE strategy fails as the callback of the Standard strategy fails      *)
(* whenever that one fails, leaving the same store; whenever the Standard  *)
(* one returns, the PKCE one has made the same change to the state key,    *)
(* has touched no other key than the verifier key, and either returns the  *)
(* same code, user_id and org_id with the stored verifier or fails with    *)
(* VerifierExpired.  The callback of a provider that binds the Standard    *)
(* strategy is the Standard callback itself.                               *)
C32_PKCERefinesStandard ==
    \A p \in Providers, params \in ParamSets :
        LET std == standard_callback(Store, p, params)
            c == callback(Store, p, params)
            skey == StateKey(p, std.req.received.org_id, std.req.received.user_id)
            vkey == VerifierKey(p, std.req.received.org_id, std.req.received.user_id)
        IN IF std.pc = "done"
           THEN c.pc = "done" /\ c.result = std.result /\ c.store = std.store
           ELSE /\ Held(c.store, {skey}) = Held(std.store, {skey})
                /\ ~Present(c.store, skey)
                /\ Without(c.store, {vkey}) = Without(std.store, {vkey})
                /\ IF CallbackSucceeded(c)
                   THEN /\ StandardResult(c.req) = StandardResult(std.req)
                        /\ CallbackResult(c.req).code = StandardResult(std.req).code
                        /\ CallbackResult(c.req).user_id = StandardResult(std.req).user_id
                        /\ CallbackResult(c.req).org_id = StandardResult(std.req).org_id
                        /\ UsesPKCE(p) =>
                               /\ Present(Store, vkey)
                               /\ CallbackResult(c.req).code_verifier = redis_get(Store, vkey)
                        /\ ~UsesPKCE(p) => c.store = std.store
                   ELSE /\ UsesPKCE(p)
                        /\ c.pc = "done" /\ c.result = VerifierExpired
                        /\ c.store = std.store

C32_Witness ==
    LET okey == StateKey("airtable", "o", "u")
        xkey == StateKey("airtable", "o:x", "u")
        gone == StateParam("c1", EncodeState(model_validate_json(redis_get(Store, okey))))
        live == StateParam("c1", EncodeState(OAuthState(StateToken(2), "u", "o:x")))
        wrong == StateParam("c1", EncodeState(OAuthState(ForgedToken, "u", "o:x")))
    IN /\ Quiescent
       /\ Present(Store, okey)
       /\ ~Present(Store, VerifierKey("airtable", "o", "u"))
       /\ standard_callback(Store, "airtable", gone).pc = "returned"
       /\ callback(Store, "airtable", gone).result = VerifierExpired
       /\ Present(Store, xkey)
       /\ Present(Store, VerifierKey("airtable", "o:x", "u"))
       /\ standard_callback(Store, "airtable", live).pc = "returned"
       /\ CallbackSucceeded(callback(Store, "airtable", live))
       /\ standard_callback(Store, "airtable", wrong).result = StateMismatch
       /\ callback(Store, "airtable", wrong).result = StateMismatch

-----------------------------------------------------------------------------
(* C33: a state that the authorize of one provider issued for an (org,     *)
(* user) and that is still stored is refused by the callback of every      *)
(* other provider: with StateExpired when that provider holds no state     *)
(* issued for the (org, user), with StateMismatch when it holds one; the   *)
(* store, the issuing provider's state included, is left as it was.        *)
C33_ProviderIsolation ==
    \A p \in Providers, q \in Providers, user_id \in Users, org_id \in Orgs :
        LET key == StateKey(p, org_id, user_id)
            saved == model_validate_json(redis_get(Store, key))
            oc == oauth_callback(Store, q, StateParam("c1", EncodeState(saved)),
                                 Answer(200, "at1"))
        IN (/\ p # q
            /\ Present(Store, key)
            /\ saved.user_id = user_id /\ saved.org_id = org_id) =>
               /\ oc.result = IF StateIssuedFor(Store, q, org_id, user_id)
                              THEN StateMismatch ELSE StateExpired
               /\ oc.req.posts = 0
               /\ Held(oc.store, {key}) = Held(Store, {key})
               /\ oc.store = Store

-----------------------------------------------------------------------------
(* C34: once an oauth_callback has failed with TokenExchangeFailed, the    *)
(* state key, and for a PKCE provider the verifier key, of its (provider,  *)
(* org, user) is absent; the same code and state sent again fail with      *)
(* StateExpired, as does every other state presented for that (org,        *)
(* user), until a new authorize for them has issued a new state, which     *)
(* then passes.                                                            *)
C34_FailedExchangeConsumesState ==
    /\ \A i \in Procs :
           Verified(i) =>
               /\ ~Present(Store, StateKey(req[i].provider, req[i].received.org_id,
                                           req[i].received.user_id))
               /\ UsesPKCE(req[i].provider) =>
                      ~Present(Store, VerifierKey(req[i].provider, req[i].received.org_id,
                                                  req[i].received.user_id))
    /\ \A p \in Providers, params \in DecodableParams, status_code \in Statuses :
           LET oc == oauth_callback(Store, p, params, Answer(status_code, "at1"))
               org_id == oc.req.received.org_id
               user_id == oc.req.received.user_id
               again == authorize(oc.store, issued + 1, p, user_id, org_id)
           IN oc.result = TokenExchangeFailed(p) =>
                  /\ ~Present(oc.store, StateKey(p, org_id, user_id))
                  /\ UsesPKCE(p) => ~Present(oc.store, VerifierKey(p, org_id, user_id))
                  /\ oauth_callback(oc.store, p, params, Answer(200, "at1")).result
                         = StateExpired
                  /\ \A token \in TokensKnown :
                         callback(oc.store, p,
                                  StateParam("c1", EncodeState(OAuthState(token, user_id, org_id)))).result
                             = StateExpired
                  /\ CallbackSucceeded(callback(again.store, p,
                                                StateParam("c1", again.result.value.encoded_state)))

C34_Witness ==
    LET key == StateKey("airtable", "o", "u")
        params == StateParam("c1", EncodeState(model_validate_json(redis_get(Store, key))))
        oc == oauth_callback(Store, "airtable", params, Answer(400, ""))
        hc == oauth_callback(Store, "hubspot",
                             StateParam("c1", EncodeState(model_validate_json(
                                 redis_get(Store, StateKey("hubspot", "o", "u"))))),
                             Answer(500, ""))
    IN /\ Quiescent
       /\ Present(Store, key)
       /\ Present(Store, VerifierKey("airtable", "o", "u"))
       /\ oc.result = TokenExchangeFailed("airtable")
       /\ oc.req.posts = 1
       /\ oc.store # Store
       /\ oauth_callback(oc.store, "airtable", params, Answer(200, "at1")).result = StateExpired
       /\ Present(Store, StateKey("hubspot", "o", "u"))
       /\ hc.result = TokenExchangeFailed("hubspot")
       /\ oauth_callback(hc.store, "hubspot", hc.req.params, Answer(200, "at1")).result
              = StateExpired

-----------------------------------------------------------------------------
(* C35: when HubSpot has answered the fetch of an object type with status  *)
(* 401, list_items fails with HTTP 401 "Access token expired" and returns  *)
(* no list of items.                                                       *)

(* HubSpot answered the first GET for some object type with 401 *)
Answered401 ==
    \E k \in 1 .. Len(req[1].answered) : req[1].answered[k][1].status_code = 401

C35_ExpiredTokenIs401 ==
    (pc[1] = "done" /\ req[1].op = "list_items" /\ Answered401) =>
        req[1].result = AccessTokenExpired

-----------------------------------------------------------------------------
(* C36: in the legacy Notion flow the stored state is deleted before the   *)
(* token-exchange request is issued: whenever the POST of a callback is in *)
(* flight or answered, that callback has deleted the state key.            *)
C36_LegacyDeletesBeforeExchange ==
    \A i \in Procs :
        (req[i].op = "oauth2callback_notion" /\ req[i].post \in {"in_flight", "answered"}) =>
            /\ req[i].deleted
            /\ ~Present(Store, StateKey("notion", req[i].received.org_id,
                                        req[i].received.user_id))

-----------------------------------------------------------------------------
(* C37: _fetch_items returns whenever the script of the provider holds a   *)
(* page that is not a 200 or that names no next offset; it has then        *)
(* fetched the pages up to the first such page and no further; every GET   *)
(* carried the offset of the page before it; and the aggregated list is,   *)
(* at every moment, the bases of the pages fetched with status 200, one    *)
(* after the other in the order of the pages.                              *)

(* The page ends the paging: a refusal, or a body without a next offset *)
LastPage(page) == page.status_code # 200 \/ page.offset = ""

HasLastPage(script) == \E k \in 1 .. Len(script) : LastPage(script[k])

FetchItemsFrame ==
    req[1].op = "fetch_items" =>
        LET r == req[1]
            n == Len(r.fetched)
        IN /\ r.fetched = SubSeq(r.script, 1, n)
           /\ \A k \in 1 .. n - 1 : ~LastPage(r.fetched[k])
           /\ pc[1] = "fetched" <=> (n >= 1 /\ LastPage(r.fetched[n]))
           /\ pc[1] \in {"fetch_items", "fetched"}
           /\ Len(r.sent) = n
           /\ \A k \in 1 .. n : r.sent[k] = IF k = 1 THEN "" ELSE r.fetched[k - 1].offset
           /\ r.aggregated_response
                  = Concat([k \in 1 .. n |-> IF r.fetched[k].status_code = 200
                                             THEN r.fetched[k].bases ELSE << >>])

C37_FetchItemsTerminates ==
    /\ []FetchItemsFrame
    /\ (pc[1] = "fetch_items" /\ HasLastPage(req[1].script)) ~> (pc[1] = "fetched")

C37_Witness ==
    /\ pc[1] = "fetched"
    /\ Len(req[1].script) = 2
    /\ req[1].fetched = <<Page(200, <<"b2", "b3">>, "o1"), Page(401, <<"b9">>, "o1")>>
    /\ req[1].aggregated_response = <<"b2", "b3">>
    /\ req[1].sent = <<"", "o1">>

====
